---------------------------- MODULE Spec2Model ----------------------------
(***************************************************************************)
(* Model of the inference-engine gateway (gpuserver).                      *)
(*                                                                         *)
(*   Spec         the session registry (session_manager.py) driven by the  *)
(*                admission API handlers (api/management_api.py)           *)
(*   FairSpec     the same, with the clock's progress as the only fairness *)
(*   GatewaySpec  the message-channel endpoint (api/websocket_server.py)   *)
(*                over a registry whose sessions come and go by create and *)
(*                delete; its clock stands still, expiry being followed in *)
(*                Spec                                                     *)
(*   CacheSpec    threads inside get_ai_engine (ai_models.py)              *)
(*   EvictSpec    the same, with remove_ai_engine called meanwhile         *)
(*   PipeSpec     one request through the streaming lip-sync pipeline      *)
(*                (musetalk/streaming_engine.py)                           *)
(*   FairPipeSpec the same, every thread and the coupler being scheduled   *)
(*   IdleSpec     the started pipeline with no request consuming its       *)
(*                frame queues                                             *)
(*   ChannelSpec  the message loop of the endpoint on two sessionless      *)
(*                user-scoped connections for one connection_id            *)
(*   SyncSpec     the A/V sync latch, the frame worker and the two tracks  *)
(*                (webrtc_streamer.py, musetalk/base_real.py)              *)
(*   ReplySpec    the replies of one connection of the endpoint, its       *)
(*                WebRTC offers and candidates included                    *)
(*   TeardownSpec close_connection of the WebRTC streamer, called for one  *)
(*                session_id by several callers                            *)
(*   MirrorSpec   mirror_index applied to drawn cycle lengths and indices  *)
(*   RequestSpec  one streaming lip-sync engine across its requests, with  *)
(*                the drain at each request boundary                       *)
(*   EndlessSpec  the same engine with its threads scheduled and no end    *)
(*                to the batches they put                                  *)
(*   StopSpec     stop() of a streaming lip-sync engine against its        *)
(*                worker threads                                           *)
(*   StreamingSpec threads inside get_streaming_engine                     *)
(*                                                                         *)
(* The admission handlers and the message-channel endpoint are coroutines  *)
(* of one event loop (uvicorn.run of one app), and every SessionManager    *)
(* method is synchronous: a handler's registry calls run without           *)
(* suspension, so each registry action below is one atomic step.           *)
(***************************************************************************)
EXTENDS Integers, Sequences, FiniteSets, TLC

VARIABLES
    now,                 \* time.time(), in whole ticks
    sessions,            \* SessionManager.sessions : session_id -> Session
    tokens,              \* SessionManager.tokens   : engine_token -> session_id
    created,             \* history: every session ever created, by session_id
    last,                \* the response of the handler that ran last
    conns,               \* the websocket_endpoint coroutines, by connection
    active_connections,  \* websocket_server.active_connections : key -> connection
    session_contexts,    \* websocket_server.session_contexts (its keys)
    tutor_engines,       \* ai_models._tutor_engines : tutor_id -> AIEngine
    engines_lock,        \* ai_models._engines_lock: the thread holding it, or None
    callers,             \* the threads inside get_ai_engine, by thread
    instances,           \* history: AIEngine objects constructed, per tutor_id
    handed,              \* history: every (tutor_id, AIEngine) pair returned
    tts,                 \* StreamingTTSWorker: audio chunks put so far
    input_queue,         \* StreamingASR.input_queue
    output_queue,        \* StreamingASR.output_queue
    feat_queue,          \* StreamingASR.feat_queue
    asr,                 \* the _asr_loop thread inside run_step
    inference,           \* the _inference_loop thread
    video_frame_queue,   \* StreamingLipSyncEngine.video_frame_queue
    audio_frame_queue,   \* StreamingLipSyncEngine.audio_frame_queue
    coupler,             \* the process_text generator
    delivered,           \* history: logical index of every frame yielded
    shared_start_time,   \* webrtc_streamer._shared_start_time, in ms, or None
    sync_triggered,      \* webrtc_streamer._sync_triggered
    media,               \* the media session that is followed: worker and tracks
    wall,                \* time.time() as the media threads read it, in ms
    channels,            \* the sockets opened for one connection_id, and their loops
    mode,                \* the followed connection: how websocket_endpoint serves it
    handlers,            \* its inbound messages, each with the replies still to send
    sent,                \* what has been sent on its websocket, in order
    tasks,               \* background video tasks not yet finished
    peer,                \* the peer connection its offer created
    streamer,            \* WebRTCStreamer's maps, for the one session_id followed
    closers,             \* the calls of close_connection, each at its position
    mirror,              \* one use of mirror_index: its arguments and results
    lipsync,             \* one StreamingLipSyncEngine across its requests
    requests,            \* the calls of process_text on that engine
    workers,             \* the worker threads of an engine and its stop()
    streaming            \* streaming_engine._streaming_engines and its callers

regVars == <<now, sessions, tokens, created, last>>
gwVars  == <<conns, active_connections, session_contexts>>
cacheVars == <<tutor_engines, engines_lock, callers, instances, handed>>
pipeVars  == <<tts, input_queue, output_queue, feat_queue, asr, inference,
               video_frame_queue, audio_frame_queue, coupler, delivered>>
syncVars  == <<shared_start_time, sync_triggered, media, wall>>
chanVars  == <<channels>>
replyVars == <<mode, handlers, sent, tasks, peer>>
teardownVars == <<streamer, closers>>
mirrorVars == <<mirror>>
requestVars == <<lipsync, requests>>
engineVars == <<workers, streaming>>
vars    == <<now, sessions, tokens, created, last,
             conns, active_connections, session_contexts,
             tutor_engines, engines_lock, callers, instances, handed,
             tts, input_queue, output_queue, feat_queue, asr, inference,
             video_frame_queue, audio_frame_queue, coupler, delivered,
             shared_start_time, sync_triggered, media, wall, channels,
             mode, handlers, sent, tasks, peer, streamer, closers, mirror,
             lipsync, requests, workers, streaming>>

---------------------------------------------------------------------------
(* Bounds of the model *)

MaxIds          == 3    \* sessions ever created in one run (Spec)
MaxTime         == 3    \* last value of the clock (Spec)
MaxStudent      == 1    \* student ids are 1..MaxStudent
max_sessions    == 2    \* settings.max_sessions, scaled down
session_timeout == 1    \* settings.session_timeout_seconds, scaled down
GwMaxIds        == 2    \* sessions ever created in one run (GatewaySpec)

None       == 0                      \* Python's None, for ids and tokens
SessionIds == 1 .. MaxIds            \* uuid4 values
Tokens     == 1 .. MaxIds            \* token_urlsafe values
Students   == 1 .. MaxStudent
Users      == Students \cup {MaxStudent + 1}   \* the students, and a user who owns no session
Tutors     == {1}
Sockets    == {1, 2}                 \* the first connection for an id, and a second
Uncalled   == 0 - 1
Conns      == {"ws"}                 \* the endpoint coroutine that is followed

WS_1008_POLICY_VIOLATION == 1008

MaxThreads == 2    \* threads that call get_ai_engine
MaxCalls   == 2    \* calls of get_ai_engine per thread
MaxTutors  == 2    \* tutor ids asked for are 1..MaxTutors
Threads    == 1 .. MaxThreads
MaxAvatars == 2    \* avatar ids asked for are 1..MaxAvatars
Avatars    == 1 .. MaxAvatars
TutorIds   == 1 .. MaxTutors

batch_size        == 2    \* StreamingLipSyncEngine.batch_size, scaled down
stride_left_size  == 1    \* StreamingASR.stride_left_size, scaled down
stride_right_size == 1    \* StreamingASR.stride_right_size, scaled down
TtsChunks         == 1    \* speech chunks the TTS worker cuts the text into
MaxSteps          == 2    \* run_step calls followed after the request begins
\* A bug that leaves the feature queue without a capacity
FeatQueueUnbounded == batch_size * 8 + batch_size * 4
MaxFrames         == 3    \* tuples the frame worker takes from res_frame_queue
MaxTicks          == 4    \* the media clock runs to MaxTicks * AUDIO_PTIME
PREBUFFER_FRAMES  == 3    \* process_frames_worker.PREBUFFER_FRAMES
VIDEO_PTIME       == 40   \* AvatarVideoTrack.VIDEO_PTIME, in ms
AUDIO_PTIME       == 20   \* AvatarAudioTrack.AUDIO_PTIME, in ms
MaxInbound        == 2    \* messages the followed connection receives
MaxCandidates     == 2    \* candidates in a local description
MaxGenerations    == 3    \* media sessions created for the one session_id
MaxClosers        == 2    \* callers of close_connection
Closers           == 1 .. MaxClosers
MaxCycle          == 4    \* frames in an avatar cycle
MaxIndex          == 12   \* logical frame indices followed
MaxRequests       == 2    \* calls of process_text on the one engine
SpeechBatches     == 1    \* batches of audio one text is synthesised into
QueueCap          == 1    \* batches followed in output_queue and in the frame queues
MaxBatches        == 3    \* batches of frames the inference thread puts
Requests          == 1 .. MaxRequests
cycle_length      == 3    \* len(coord_list_cycle), frames in the avatar's cycle
MaxMsgs           == 2    \* frames one channel receives
FeatQueueMax      == 2                  \* Queue(maxsize=2)
VideoQueueMax     == batch_size * 4     \* Queue(maxsize=batch_size * 4)
AudioQueueMax     == batch_size * 8     \* Queue(maxsize=batch_size * 8)

---------------------------------------------------------------------------
(* Session registry: session_manager.py *)

MapPut(f, k, v) == [x \in (DOMAIN f) \cup {k} |-> IF x = k THEN v ELSE f[x]]
MapPop(f, k)    == [x \in (DOMAIN f) \ {k} |-> f[x]]

Registry(s, t) == [sessions |-> s, tokens |-> t]

\* Session(...) with the dataclass defaults: status "active", both stamps now
Session(sid, tutor, student, kb, tok, t) ==
    [session_id |-> sid, tutor_id |-> tutor, student_id |-> student,
     kb_id |-> kb, engine_token |-> tok, status |-> "active",
     created_at |-> t, last_activity |-> t]

\* self.sessions.get(session_id): the reference (its key) or None
get_session(reg, sid) ==
    IF sid \in DOMAIN reg.sessions THEN sid ELSE None

\* self.tokens.get(token)
verify_token(reg, tok) ==
    IF tok \in DOMAIN reg.tokens THEN reg.tokens[tok] ELSE None

\* A bug that leaves the reverse index behind
delete_session_keeps_token(reg, sid) ==
    IF sid \notin DOMAIN reg.sessions
    THEN [reg |-> reg, ok |-> FALSE]
    ELSE [reg |-> Registry(MapPop(reg.sessions, sid), reg.tokens), ok |-> TRUE]

delete_session(reg, sid) ==
    IF sid \notin DOMAIN reg.sessions
    THEN [reg |-> reg, ok |-> FALSE]
    ELSE LET session == reg.sessions[sid]
         IN  [reg |-> Registry(MapPop(reg.sessions, sid),
                               MapPop(reg.tokens, session.engine_token)),
              ok  |-> TRUE]

update_activity(reg, sid, t) ==
    IF sid \in DOMAIN reg.sessions
    THEN Registry([reg.sessions EXCEPT ![sid].last_activity = t], reg.tokens)
    ELSE reg

RECURSIVE DeleteEach(_, _)
DeleteEach(reg, ids) ==
    IF ids = {} THEN reg
    ELSE LET sid == CHOOSE x \in ids : TRUE
         IN  DeleteEach(delete_session(reg, sid).reg, ids \ {sid})

expired_sessions(reg, t) ==
    {sid \in DOMAIN reg.sessions :
        t - reg.sessions[sid].last_activity > session_timeout}

\* A bug that drops the expired sessions from the primary index only
cleanup_primary_only(reg, t) ==
    Registry([sid \in (DOMAIN reg.sessions) \ expired_sessions(reg, t)
                 |-> reg.sessions[sid]],
             reg.tokens)

cleanup_expired_sessions(reg, t) ==
    DeleteEach(reg, expired_sessions(reg, t))

\* A bug that lists without sweeping
get_all_sessions_no_sweep(reg, t) == reg

\* get_all_sessions: the registry after the sweep (the copy is its sessions)
get_all_sessions(reg, t) == cleanup_expired_sessions(reg, t)

\* A bug that admits without looking at the cap
create_session_no_cap(reg, t, tutor, student, kb, sid, tok) ==
    LET swept == cleanup_expired_sessions(reg, t)
    IN  [reg |-> Registry(MapPut(swept.sessions, sid,
                                 Session(sid, tutor, student, kb, tok, t)),
                          MapPut(swept.tokens, tok, sid)),
         session |-> sid, raised |-> FALSE]

\* A bug that checks the cap before sweeping
create_session_no_sweep(reg, t, tutor, student, kb, sid, tok) ==
    IF Cardinality(DOMAIN reg.sessions) >= max_sessions
    THEN [reg |-> reg, session |-> None, raised |-> TRUE]
    ELSE [reg |-> Registry(MapPut(reg.sessions, sid,
                                  Session(sid, tutor, student, kb, tok, t)),
                           MapPut(reg.tokens, tok, sid)),
          session |-> sid, raised |-> FALSE]

\* create_session; sid and tok are the values uuid4() and token_urlsafe(32) return
create_session(reg, t, tutor, student, kb, sid, tok) ==
    LET swept == cleanup_expired_sessions(reg, t)
    IN  IF Cardinality(DOMAIN swept.sessions) >= max_sessions
        THEN [reg |-> swept, session |-> None, raised |-> TRUE]
        ELSE [reg |-> Registry(MapPut(swept.sessions, sid,
                                      Session(sid, tutor, student, kb, tok, t)),
                               MapPut(swept.tokens, tok, sid)),
              session |-> sid, raised |-> FALSE]

\* A weak generator: any token value, issued before or not
AnyToken(hist) == Tokens

\* secrets.token_urlsafe(32): 256 random bits, a value never issued before
\* (the largest one left, so that a token and its session id differ)
FreshTokens(hist) ==
    LET unused == Tokens \ {hist[s].engine_token : s \in DOMAIN hist}
    IN  IF unused = {} THEN {} ELSE {CHOOSE k \in unused : \A o \in unused : k >= o}

\* uuid.uuid4(): a value never issued before
FreshSessionIds(hist) ==
    LET unused == SessionIds \ DOMAIN hist
    IN  IF unused = {} THEN {} ELSE {CHOOSE s \in unused : \A o \in unused : s <= o}

\* What a handler answered; observed only where the environment asks for it
Response(env, op, arg, code) ==
    IF env.observe THEN [op |-> op, arg |-> arg, code |-> code]
    ELSE [op |-> "any", arg |-> None, code |-> 0]

\* The two environments the handlers are run in
RegEnv == [idLimit |-> MaxIds, students |-> {1}, observe |-> TRUE]
GwEnv  == [idLimit |-> GwMaxIds, students |-> Students, observe |-> FALSE]

---------------------------------------------------------------------------
(* Admission API: api/management_api.py.  Each handler is one step of the  *)
(* event loop; its HTTP status is recorded in last.                        *)

Reg == Registry(sessions, tokens)

\* POST /v1/sessions
CreateSession(env) ==
    /\ Cardinality(DOMAIN created) < env.idLimit
    /\ \E tutor \in Tutors, student \in env.students,
          sid \in FreshSessionIds(created), tok \in FreshTokens(created) :
          LET r == create_session(Reg, now, tutor, student, None, sid, tok)
          IN  /\ sessions' = r.reg.sessions
              /\ tokens'   = r.reg.tokens
              /\ created'  = IF r.raised THEN created
                             ELSE MapPut(created, sid, r.reg.sessions[sid])
              /\ last'     = IF r.raised THEN Response(env, "create", None, 503)
                             ELSE Response(env, "create", r.session, 201)
    /\ UNCHANGED <<now, gwVars, cacheVars, pipeVars, syncVars, chanVars, replyVars, teardownVars, mirrorVars, engineVars, requestVars>>

\* DELETE /v1/sessions/{session_id}
DeleteSession(env) ==
    /\ \E sid \in SessionIds :
          LET r == delete_session(Reg, sid)
          IN  /\ sessions' = r.reg.sessions
              /\ tokens'   = r.reg.tokens
              /\ last'     = Response(env, "delete", sid, IF r.ok THEN 204 ELSE 404)
    /\ UNCHANGED <<now, created, gwVars, cacheVars, pipeVars, syncVars, chanVars, replyVars, teardownVars, mirrorVars, engineVars, requestVars>>

\* GET /v1/sessions and GET /health: both call get_all_sessions
ListSessions(env) ==
    /\ LET r == get_all_sessions(Reg, now)
       IN  /\ sessions' = r.sessions
           /\ tokens'   = r.tokens
    /\ last' = Response(env, "list", None, 200)
    /\ UNCHANGED <<now, created, gwVars, cacheVars, pipeVars, syncVars, chanVars, replyVars, teardownVars, mirrorVars, engineVars, requestVars>>

\* update_activity as the message loop calls it, for any id a client names
Touch(env) ==
    /\ \E sid \in SessionIds :
          LET r == update_activity(Reg, sid, now)
          IN  /\ sessions' = r.sessions
              /\ tokens'   = r.tokens
              /\ last'     = Response(env, "touch", sid, 0)
    /\ UNCHANGED <<now, created, gwVars, cacheVars, pipeVars, syncVars, chanVars, replyVars, teardownVars, mirrorVars, engineVars, requestVars>>

\* time.time() advances
Tick(env) ==
    /\ now < MaxTime
    /\ now' = now + 1
    /\ last' = Response(env, "tick", None, 0)
    /\ UNCHANGED <<sessions, tokens, created, gwVars, cacheVars, pipeVars, syncVars, chanVars, replyVars, teardownVars, mirrorVars, engineVars, requestVars>>

\* The engine cache before any caller: ai_models.py module level
IdleCaller ==
    [pc |-> "idle", tutor_id |-> None, calls |-> 0, slow |-> FALSE, result |-> None,
     raised |-> FALSE]

CacheInit ==
    /\ tutor_engines = <<>>
    /\ engines_lock = None
    /\ callers = [t \in Threads |-> IdleCaller]
    /\ instances = [k \in TutorIds |-> 0]
    /\ handed = {}

\* The lip-sync engine at a request boundary: process_text has drained the
\* queues and handed its text to the TTS worker; the extractor is at the top
\* of run_step and the inference thread waits for a feature batch
PipeInit ==
    /\ tts = 0
    /\ input_queue = <<>>
    /\ output_queue = <<>>
    /\ feat_queue = <<>>
    /\ asr = [pc |-> "read", i |-> 0, frames |-> 0, steps |-> 0, entered |-> 0]
    /\ inference = [pc |-> "wait", i |-> 0, audio_frames |-> <<>>,
                    silence |-> TRUE, index |-> 0]
    /\ video_frame_queue = <<>>
    /\ audio_frame_queue = <<>>
    /\ coupler = [pc |-> "video", video |-> <<>>, audio_frames |-> <<>>, how |-> "none"]
    /\ delivered = <<>>

\* A track before its first recv: AvatarVideoTrack / AvatarAudioTrack __init__
NewTrack == [data_started |-> FALSE, start |-> None, n |-> 0, last |-> "none"]

\* The followed media session before its offer, and once its peer connection,
\* its tracks and its frame worker exist
\* frame_list_cycle as read_imgs loaded it, one pixel of row 0 for each cached
\* frame: odd and even values both occur
LoadedCycle == [idx \in 0 .. cycle_length - 1 |-> idx + 1]

\* "image[0, :] &= 0xFE" on a pixel of row 0
clear_low_bit(pixel) == pixel - (pixel % 2)

NoMedia ==
    [alive |-> FALSE, frame_count |-> 0, sync_triggered |-> FALSE, T0 |-> None,
     vq |-> 0, aq |-> 0, video |-> NewTrack, audio |-> NewTrack,
     frame_list_cycle |-> LoadedCycle]

SyncInit ==
    /\ shared_start_time = None
    /\ sync_triggered = FALSE
    /\ media = NoMedia
    /\ wall = AUDIO_PTIME

\* "ai_engine = None", where engines are the tuples of AIEngine
NoEngine == <<>>

\* A socket no client has opened yet
NewChannel == [state |-> "new", ai_engine |-> NoEngine, log |-> <<>>]

ChanInit == channels = [s \in Sockets |-> NewChannel]

\* No peer connection
NoPeer == [state |-> "none", sdp |-> <<>>]

ReplyInit ==
    /\ mode = "none"
    /\ handlers = <<>>
    /\ sent = <<>>
    /\ tasks = {}
    /\ peer = NoPeer

\* WebRTCStreamer.__init__: empty maps, no media session made or gone down;
\* lost collects the media sessions whose entry a call made for an earlier
\* peer connection deleted
TeardownInit ==
    /\ streamer = [connections |-> None, video_tracks |-> None,
                   audio_tracks |-> None, websockets |-> None,
                   made |-> 0, down |-> {}, lost |-> {}]
    /\ closers = [c \in Closers |-> [at |-> "idle", pc |-> None]]

\* mirror_index not yet called on (size, index)
NoCall(size, index) ==
    [size |-> size, index |-> index, idx |-> Uncalled,
     same_turn |-> FALSE, again |-> Uncalled, prev |-> Uncalled]

\* No frame asked for: a cycle of one frame at index 0
MirrorIdle == mirror = NoCall(1, 0)

\* StreamingLipSyncEngine after setup() and start(): warm_up has left the
\* context frames in self.frames, the threads are at the top of their loops,
\* no request has been made
RequestInit ==
    /\ lipsync = [text_queue |-> <<>>, tts |-> [req |-> 0, left |-> 0, marker |-> "none"],
                  input_queue |-> <<>>, output_queue |-> <<>>, feat_queue |-> <<>>,
                  frames |-> "context",
                  asr |-> [pc |-> "read", req |-> 0],
                  inference |-> [pc |-> "feat", feat |-> 0,
                                 audio |-> [req |-> 0, end |-> FALSE], index |-> 0],
                  video_frame_queue |-> <<>>]
    /\ requests = [r \in Requests |->
                      [state |-> "new", alone |-> TRUE, first |-> Uncalled,
                       latest |-> Uncalled, of |-> {}]]

\* The threads of a started engine at the top of their loops, stop() not yet
\* called: start() has cleared quit_event and set render_event
StopInit ==
    workers = [quit_event |-> FALSE, render_event |-> TRUE,
               tts |-> "get", asr |-> "step", inference |-> "feat",
               output_queue |-> 0, feat_queue |-> 0, video_frame_queue |-> 0,
               stop |-> "idle", joined |-> {}]

\* _streaming_engines = {}, no thread inside get_streaming_engine
StreamingInit ==
    streaming = [engines |-> [a \in Avatars |-> None],
                 callers |-> [t \in Threads |-> [pc |-> "idle", avatar |-> None,
                                                 engine |-> None, calls |-> 0]],
                 started |-> [a \in Avatars |-> 0],
                 got |-> {}]

\* A connection slot no coroutine is using
FreeConn ==
    [state |-> "free", user_based |-> FALSE, key |-> None, bad |-> "ok",
     session |-> None, code |-> 0, welcome |-> "none", served |-> FALSE,
     stale |-> FALSE]

\* A coroutine that has returned: its locals are gone, its close code stays
Returned(user_based, bad, code) ==
    [FreeConn EXCEPT !.state = "closed", !.user_based = user_based,
                     !.bad = bad, !.code = code]

Init ==
    /\ now = 0
    /\ sessions = <<>>
    /\ tokens = <<>>
    /\ created = <<>>
    /\ last = [op |-> "any", arg |-> None, code |-> 0]
    /\ conns = [c \in Conns |-> FreeConn]
    /\ active_connections = <<>>
    /\ session_contexts = {}
    /\ CacheInit
    /\ PipeInit
    /\ SyncInit
    /\ ChanInit
    /\ ReplyInit
    /\ TeardownInit
    /\ MirrorIdle
    /\ RequestInit
    /\ StopInit
    /\ StreamingInit

Next ==
    \/ CreateSession(RegEnv)
    \/ DeleteSession(RegEnv)
    \/ ListSessions(RegEnv)
    \/ Touch(RegEnv)
    \/ Tick(RegEnv)

Spec == Init /\ [][Next]_vars

\* No task of the program sweeps on its own: only the clock is sure to move.
FairSpec == Init /\ [][Next]_vars /\ WF_vars(Tick(RegEnv))

---------------------------------------------------------------------------
(* Connection gateway: api/websocket_server.py, websocket_endpoint.  One   *)
(* coroutine per connection; it is suspended at every await (accept, the   *)
(* welcome, receive_text, handle_message), where other handlers may run.   *)

enable_avatar == TRUE       \* settings.enable_avatar

\* connection_id: "user_<uid>" or a session id
ConnectionId(user_based, id) == <<IF user_based THEN "user" ELSE "session", id>>

\* The connection_id both sockets are opened for: "user_1"
ChanId == ConnectionId(TRUE, 1)

\* A bug that accepts any live token for any live session id in the path
session_scoped_auth_any_token(reg, session_id, token) ==
    IF verify_token(reg, token) = None THEN None ELSE get_session(reg, session_id)

\* session-scoped handshake: the Session to serve, or None to refuse
session_scoped_auth(reg, session_id, token) ==
    LET verified_session_id == verify_token(reg, token)
    IN  IF verified_session_id = None \/ verified_session_id # session_id
        THEN None
        ELSE get_session(reg, session_id)

\* user-scoped handshake: the default Session, or None for sessionless mode
user_scoped_session(reg, token) ==
    IF token = None THEN None
    ELSE LET verified_session_id == verify_token(reg, token)
         IN  IF verified_session_id # None
             THEN get_session(reg, verified_session_id)
             ELSE None

\* What is wrong with the token presented for this connection id: "unknown"
\* to the registry, a "mismatch" with the session in the path, or "ok"
InvalidToken(reg, user_based, id, token) ==
    IF user_based /\ token = None THEN "ok"
    ELSE IF verify_token(reg, token) = None THEN "unknown"
    ELSE IF ~user_based /\ verify_token(reg, token) # id THEN "mismatch"
    ELSE "ok"

Ws == Response(GwEnv, "ws", None, 0)

\* The upgrade request arrives: authentication, up to "await websocket.accept()"
WsConnect(c) ==
    /\ conns[c].state \in {"free", "closed"}
    /\ \E user_based \in BOOLEAN, token \in Tokens \cup {None} :
        \E id \in (IF user_based THEN Users ELSE SessionIds) :
          LET session == IF user_based
                         THEN user_scoped_session(Reg, token)
                         ELSE session_scoped_auth(Reg, id, token)
              refused == ~user_based /\ session = None
              bad     == InvalidToken(Reg, user_based, id, token)
          IN  conns' = [conns EXCEPT ![c] =
                  IF refused
                  THEN Returned(user_based, bad, WS_1008_POLICY_VIOLATION)
                  ELSE [state |-> "accepting", user_based |-> user_based,
                        key |-> id, bad |-> bad, session |-> session,
                        code |-> 0, welcome |-> "none", served |-> FALSE,
                        stale |-> FALSE]]
    /\ last' = Ws
    /\ UNCHANGED <<now, sessions, tokens, created, active_connections, session_contexts,
                   cacheVars, pipeVars, syncVars, chanVars, replyVars, teardownVars, mirrorVars, engineVars, requestVars>>

\* accept() returns: the connection enters the live-connections map
WsAccept(c) ==
    /\ conns[c].state = "accepting"
    /\ active_connections' =
          MapPut(active_connections, ConnectionId(conns[c].user_based, conns[c].key), c)
    /\ conns' = [conns EXCEPT ![c].state = "accepted"]
    /\ last' = Ws
    /\ UNCHANGED <<now, sessions, tokens, created, session_contexts,
                   cacheVars, pipeVars, syncVars, chanVars, replyVars, teardownVars, mirrorVars, engineVars, requestVars>>

\* The welcome: an idle video (when one can be had) or a text, session-scoped only
WsWelcome(c) ==
    /\ conns[c].state = "accepted"
    /\ \E video_ok \in BOOLEAN :
          conns' = [conns EXCEPT
              ![c].state = "serving",
              ![c].welcome =
                  IF enable_avatar /\ ~conns[c].user_based /\ conns[c].session # None
                  THEN (IF video_ok THEN "video" ELSE "none")
                  ELSE IF ~conns[c].user_based /\ conns[c].session # None
                       THEN "text"
                       ELSE "none"]
    /\ last' = Ws
    /\ UNCHANGED <<now, sessions, tokens, created, active_connections, session_contexts,
                   cacheVars, pipeVars, syncVars, chanVars, replyVars, teardownVars, mirrorVars, engineVars, requestVars>>

\* One turn of the message loop, for a message that decodes.  stale is
\* history: a message of the connection was handled with a cached context
\* whose session the registry did not hold
WsMessage(c) ==
    /\ conns[c].state = "serving"
    /\ \E tutor_id \in Tutors \cup {None}, engine_session_id \in SessionIds \cup {None} :
          IF conns[c].user_based
          THEN IF conns[c].session = None
               THEN \* sessionless: tutor_id is required, else an error reply
                    /\ conns' = IF tutor_id = None THEN conns
                                ELSE [conns EXCEPT ![c].served = TRUE]
                    /\ UNCHANGED <<sessions, tokens, session_contexts>>
               ELSE LET esid == IF engine_session_id = None
                                THEN conns[c].session ELSE engine_session_id
                        known == esid \in session_contexts
                        target == get_session(Reg, esid)
                    IN  IF ~known /\ target = None
                        THEN \* "Invalid engine_session_id": error reply
                             UNCHANGED <<conns, sessions, tokens, session_contexts>>
                        ELSE LET r == update_activity(Reg, esid, now)
                             IN  /\ session_contexts' = session_contexts \cup {esid}
                                 /\ sessions' = r.sessions
                                 /\ tokens' = r.tokens
                                 /\ conns' = [conns EXCEPT
                                        ![c].served = TRUE,
                                        ![c].stale = @ \/ target = None]
          ELSE LET r == update_activity(Reg, conns[c].key, now)
               IN  /\ sessions' = r.sessions
                   /\ tokens' = r.tokens
                   /\ conns' = [conns EXCEPT ![c].served = TRUE]
                   /\ UNCHANGED session_contexts
    /\ last' = Ws
    /\ UNCHANGED <<now, created, active_connections,
                   cacheVars, pipeVars, syncVars, chanVars, replyVars, teardownVars, mirrorVars, engineVars, requestVars>>

\* receive_text raises WebSocketDisconnect: the finally clause pops the key
WsDisconnect(c) ==
    /\ conns[c].state = "serving"
    /\ active_connections' =
          MapPop(active_connections, ConnectionId(conns[c].user_based, conns[c].key))
    /\ conns' = [conns EXCEPT ![c] = Returned(conns[c].user_based, conns[c].bad, 0)]
    /\ last' = Ws
    /\ UNCHANGED <<now, sessions, tokens, created, session_contexts,
                   cacheVars, pipeVars, syncVars, chanVars, replyVars, teardownVars, mirrorVars, engineVars, requestVars>>

GwNext ==
    \/ CreateSession(GwEnv)
    \/ DeleteSession(GwEnv)
    \/ \E c \in Conns : WsConnect(c)
    \/ \E c \in Conns : WsAccept(c)
    \/ \E c \in Conns : WsWelcome(c)
    \/ \E c \in Conns : WsMessage(c)
    \/ \E c \in Conns : WsDisconnect(c)

GatewaySpec == Init /\ [][GwNext]_vars

---------------------------------------------------------------------------
(* Engine cache: ai_models.py, get_ai_engine.  Threads interleave between  *)
(* the statements of the function; remove_ai_engine has no caller.         *)

AIEngine(tutor_id, n) == <<tutor_id, n>>     \* the n-th AIEngine(tutor_id=...)

\* A bug that creates without looking again once the lock is held
absent_unchecked(cache, tutor_id) == TRUE

\* "if tutor_id not in _tutor_engines", evaluated under the lock
absent_under_lock(cache, tutor_id) == tutor_id \notin DOMAIN cache

Call(t) ==
    /\ callers[t].pc = "idle"
    /\ callers[t].calls < MaxCalls
    /\ \E k \in TutorIds :
          callers' = [callers EXCEPT ![t] =
              [pc |-> "fast", tutor_id |-> k, calls |-> callers[t].calls + 1,
               slow |-> FALSE, result |-> None, raised |-> FALSE]]
    /\ UNCHANGED <<tutor_engines, engines_lock, instances, handed>>
    /\ UNCHANGED <<regVars, gwVars, pipeVars, syncVars, chanVars, replyVars, teardownVars, mirrorVars, engineVars, requestVars>>

\* "if tutor_id in _tutor_engines:" outside the lock
FastCheck(t) ==
    /\ callers[t].pc = "fast"
    /\ callers' = [callers EXCEPT ![t].pc =
          IF callers[t].tutor_id \in DOMAIN tutor_engines THEN "fast_return" ELSE "lock"]
    /\ UNCHANGED <<tutor_engines, engines_lock, instances, handed>>
    /\ UNCHANGED <<regVars, gwVars, pipeVars, syncVars, chanVars, replyVars, teardownVars, mirrorVars, engineVars, requestVars>>

\* "return _tutor_engines[tutor_id]" outside the lock: the subscript raises
\* KeyError if the entry has gone since the test
FastReturn(t) ==
    /\ callers[t].pc = "fast_return"
    /\ IF callers[t].tutor_id \in DOMAIN tutor_engines
       THEN LET e == tutor_engines[callers[t].tutor_id]
            IN  /\ callers' = [callers EXCEPT ![t].pc = "idle", ![t].result = e]
                /\ handed' = handed \cup {<<callers[t].tutor_id, e>>}
       ELSE /\ callers' = [callers EXCEPT ![t].pc = "idle", ![t].raised = TRUE]
            /\ handed' = handed
    /\ UNCHANGED <<tutor_engines, engines_lock, instances>>
    /\ UNCHANGED <<regVars, gwVars, pipeVars, syncVars, chanVars, replyVars, teardownVars, mirrorVars, engineVars, requestVars>>

\* "with _engines_lock:" is entered
Lock(t) ==
    /\ callers[t].pc = "lock"
    /\ engines_lock = None
    /\ engines_lock' = t
    /\ callers' = [callers EXCEPT ![t].pc = "check", ![t].slow = TRUE]
    /\ UNCHANGED <<tutor_engines, instances, handed>>
    /\ UNCHANGED <<regVars, gwVars, pipeVars, syncVars, chanVars, replyVars, teardownVars, mirrorVars, engineVars, requestVars>>

\* the second check and, if the entry is still absent, the construction
CheckAndCreate(t) ==
    /\ callers[t].pc = "check"
    /\ LET k == callers[t].tutor_id
       IN  IF absent_under_lock(tutor_engines, k)
           THEN /\ instances' = [instances EXCEPT ![k] = @ + 1]
                /\ tutor_engines' = MapPut(tutor_engines, k, AIEngine(k, instances[k] + 1))
           ELSE UNCHANGED <<tutor_engines, instances>>
    /\ callers' = [callers EXCEPT ![t].pc = "return"]
    /\ UNCHANGED <<engines_lock, handed>>
    /\ UNCHANGED <<regVars, gwVars, pipeVars, syncVars, chanVars, replyVars, teardownVars, mirrorVars, engineVars, requestVars>>

\* "return _tutor_engines[tutor_id]" inside the with block, which releases
LockedReturn(t) ==
    /\ callers[t].pc = "return"
    /\ LET e == tutor_engines[callers[t].tutor_id]
       IN  /\ callers' = [callers EXCEPT ![t].pc = "idle", ![t].result = e]
           /\ handed' = handed \cup {<<callers[t].tutor_id, e>>}
    /\ engines_lock' = None
    /\ UNCHANGED <<tutor_engines, instances>>
    /\ UNCHANGED <<regVars, gwVars, pipeVars, syncVars, chanVars, replyVars, teardownVars, mirrorVars, engineVars, requestVars>>

CacheNext ==
    \/ \E t \in Threads : Call(t)
    \/ \E t \in Threads : FastCheck(t)
    \/ \E t \in Threads : FastReturn(t)
    \/ \E t \in Threads : Lock(t)
    \/ \E t \in Threads : CheckAndCreate(t)
    \/ \E t \in Threads : LockedReturn(t)

CacheSpec == Init /\ [][CacheNext]_vars

\* remove_ai_engine(k) by a thread that is not inside get_ai_engine: the whole
\* function runs under the lock
RemoveAiEngine(k) ==
    /\ engines_lock = None
    /\ tutor_engines' = MapPop(tutor_engines, k)
    /\ UNCHANGED <<engines_lock, callers, instances, handed>>
    /\ UNCHANGED <<regVars, gwVars, pipeVars, syncVars, chanVars, replyVars, teardownVars, mirrorVars, engineVars, requestVars>>

EvictNext ==
    \/ CacheNext
    \/ \E k \in TutorIds : RemoveAiEngine(k)

EvictSpec == Init /\ [][EvictNext]_vars

---------------------------------------------------------------------------
(* Streaming lip-sync pipeline: musetalk/streaming_engine.py.  The TTS     *)
(* worker, _asr_loop and _inference_loop are threads; process_text is the  *)
(* output coupler, a generator of the event loop that reads the two frame  *)
(* queues through an executor.  One request is followed, from the drain at *)
(* its boundary on.                                                        *)

Silence == [ty |-> 1, ev |-> "none"]     \* (np.zeros(chunk), 1, None)

\* the i-th chunk of _stream_tts: 'start' on the first, 'end' on the zero chunk
TtsChunk(i) ==
    [ty |-> 0, ev |-> IF i = TtsChunks + 1 THEN "end" ELSE IF i = 1 THEN "start" ELSE "none"]

\* A bug that drops the frame when blending fails
emitted_frames_dropped_on_error(index, blend_ok) ==
    IF blend_ok THEN <<index>> ELSE <<>>

\* A bug that puts the frame of the first cycle position every time
emitted_frames_stale_index(index, blend_ok) == <<0>>

\* The frame put for a logical index: the blended frame, or the original
\* avatar frame when blending raised
emitted_frames(index, blend_ok) == <<index>>

\* StreamingTTSWorker._stream_tts: put_audio_frame of the next chunk
TtsPut ==
    /\ tts < TtsChunks + 1
    /\ tts' = tts + 1
    /\ input_queue' = Append(input_queue, TtsChunk(tts + 1))
    /\ UNCHANGED <<output_queue, feat_queue, asr, inference, video_frame_queue,
                   audio_frame_queue, coupler, delivered>>
    /\ UNCHANGED <<regVars, gwVars, cacheVars, syncVars, chanVars, replyVars, teardownVars, mirrorVars, engineVars, requestVars>>

\* run_step, one turn of its read loop: get_audio_frame (silence when the
\* input queue stays empty for the timeout), then output_queue.put; after
\* the last turn run_step returns early or goes on to extract the features
AsrRead(limit) ==
    /\ asr.pc = "read"
    /\ asr.steps < limit
    /\ LET frame == IF input_queue # <<>> THEN Head(input_queue) ELSE Silence
       IN  /\ input_queue' = IF input_queue # <<>> THEN Tail(input_queue) ELSE input_queue
           /\ output_queue' = Append(output_queue, frame)
    /\ asr' = IF asr.i + 1 < batch_size * 2
              THEN [asr EXCEPT !.i = @ + 1, !.frames = @ + 1]
              ELSE IF asr.frames + 1 <= stride_left_size + stride_right_size
              THEN [asr EXCEPT !.i = 0, !.frames = @ + 1, !.steps = @ + 1]
              ELSE [asr EXCEPT !.i = 0, !.frames = @ + 1, !.pc = "put"]
    /\ UNCHANGED <<tts, feat_queue, inference, video_frame_queue,
                   audio_frame_queue, coupler, delivered>>
    /\ UNCHANGED <<regVars, gwVars, cacheVars, syncVars, chanVars, replyVars, teardownVars, mirrorVars, engineVars, requestVars>>

\* feat_queue.put(whisper_chunks), blocking while the queue is full
AsrPut ==
    /\ asr.pc = "put"
    /\ Len(feat_queue) < FeatQueueMax
    /\ feat_queue' = Append(feat_queue, asr.steps + 1)
    /\ asr' = [asr EXCEPT !.pc = "read", !.i = 0, !.steps = @ + 1,
                          !.entered = @ + 1,
                          !.frames = stride_left_size + stride_right_size]
    /\ UNCHANGED <<tts, input_queue, output_queue, inference, video_frame_queue,
                   audio_frame_queue, coupler, delivered>>
    /\ UNCHANGED <<regVars, gwVars, cacheVars, syncVars, chanVars, replyVars, teardownVars, mirrorVars, engineVars, requestVars>>

\* _inference_loop: feat_queue.get, then the batch's batch_size * 2 audio
\* frames leave output_queue (run_step has put them before the features)
InfGet ==
    /\ inference.pc = "wait"
    /\ feat_queue # <<>>
    /\ Len(output_queue) >= batch_size * 2
    /\ feat_queue' = Tail(feat_queue)
    /\ LET taken == SubSeq(output_queue, 1, batch_size * 2)
       IN  inference' = [inference EXCEPT
               !.pc = "video", !.i = 0, !.audio_frames = taken,
               !.silence = \A j \in 1 .. Len(taken) : taken[j].ty = 1]
    /\ output_queue' = SubSeq(output_queue, batch_size * 2 + 1, Len(output_queue))
    /\ UNCHANGED <<tts, input_queue, asr, video_frame_queue,
                   audio_frame_queue, coupler, delivered>>
    /\ UNCHANGED <<regVars, gwVars, cacheVars, syncVars, chanVars, replyVars, teardownVars, mirrorVars, engineVars, requestVars>>

\* _inference_loop: video_frame_queue.put of the next frame of the batch
InfPutVideo ==
    /\ inference.pc = "video"
    /\ Len(video_frame_queue) < VideoQueueMax
    /\ \E blend_ok \in (IF inference.silence THEN {TRUE} ELSE BOOLEAN) :
          video_frame_queue' =
              video_frame_queue \o emitted_frames(inference.index, blend_ok)
    /\ inference' = [inference EXCEPT !.pc = "audio1"]
    /\ UNCHANGED <<tts, input_queue, output_queue, feat_queue, asr,
                   audio_frame_queue, coupler, delivered>>
    /\ UNCHANGED <<regVars, gwVars, cacheVars, syncVars, chanVars, replyVars, teardownVars, mirrorVars, engineVars, requestVars>>

\* _inference_loop: audio_frame_queue.put of one of the frame's two chunks
InfPutAudio ==
    /\ inference.pc \in {"audio1", "audio2"}
    /\ Len(audio_frame_queue) < AudioQueueMax
    /\ LET second == inference.pc = "audio2"
           af == inference.audio_frames[inference.i * 2 + (IF second THEN 2 ELSE 1)]
       IN  /\ audio_frame_queue' = Append(audio_frame_queue, af)
           /\ inference' =
                 IF ~second THEN [inference EXCEPT !.pc = "audio2"]
                 ELSE [inference EXCEPT
                          !.index = @ + 1, !.i = @ + 1,
                          !.pc = IF inference.i + 1 = batch_size THEN "wait" ELSE "video"]
    /\ UNCHANGED <<tts, input_queue, output_queue, feat_queue, asr,
                   video_frame_queue, coupler, delivered>>
    /\ UNCHANGED <<regVars, gwVars, cacheVars, syncVars, chanVars, replyVars, teardownVars, mirrorVars, engineVars, requestVars>>

\* process_text: video_frame_queue.get returns a frame
CpGetVideo ==
    /\ coupler.pc = "video"
    /\ video_frame_queue # <<>>
    /\ video_frame_queue' = Tail(video_frame_queue)
    /\ coupler' = [coupler EXCEPT !.pc = "audio", !.video = <<Head(video_frame_queue)>>,
                                  !.audio_frames = <<>>]
    /\ UNCHANGED <<tts, input_queue, output_queue, feat_queue, asr, inference,
                   audio_frame_queue, delivered>>
    /\ UNCHANGED <<regVars, gwVars, cacheVars, syncVars, chanVars, replyVars, teardownVars, mirrorVars, engineVars, requestVars>>

\* process_text: video_frame_queue.get times out with both queues empty
CpVideoTimeout ==
    /\ coupler.pc = "video"
    /\ video_frame_queue = <<>> /\ audio_frame_queue = <<>>
    /\ coupler' = [coupler EXCEPT !.pc = "done", !.how = "timeout"]
    /\ UNCHANGED <<tts, input_queue, output_queue, feat_queue, asr, inference,
                   video_frame_queue, audio_frame_queue, delivered>>
    /\ UNCHANGED <<regVars, gwVars, cacheVars, syncVars, chanVars, replyVars, teardownVars, mirrorVars, engineVars, requestVars>>

\* process_text: audio_frame_queue.get returns a chunk, or times out and
\* silence stands in for it
CpGetAudio ==
    /\ coupler.pc = "audio"
    /\ LET af == IF audio_frame_queue # <<>> THEN Head(audio_frame_queue) ELSE Silence
       IN  coupler' = [coupler EXCEPT
               !.audio_frames = Append(@, af),
               !.pc = IF Len(coupler.audio_frames) = 1 THEN "yield" ELSE "audio"]
    /\ audio_frame_queue' =
          IF audio_frame_queue # <<>> THEN Tail(audio_frame_queue) ELSE audio_frame_queue
    /\ UNCHANGED <<tts, input_queue, output_queue, feat_queue, asr, inference,
                   video_frame_queue, delivered>>
    /\ UNCHANGED <<regVars, gwVars, cacheVars, syncVars, chanVars, replyVars, teardownVars, mirrorVars, engineVars, requestVars>>

\* process_text: the tuple is yielded; the loop ends on an 'end' marker
CpYield ==
    /\ coupler.pc = "yield"
    /\ delivered' = delivered \o coupler.video
    /\ LET end_detected == \E j \in 1 .. Len(coupler.audio_frames) :
                               coupler.audio_frames[j].ev = "end"
       IN  coupler' = [coupler EXCEPT
               !.video = <<>>,
               !.pc = IF end_detected THEN "done" ELSE "video",
               !.how = IF end_detected THEN "end" ELSE "none"]
    /\ UNCHANGED <<tts, input_queue, output_queue, feat_queue, asr, inference,
                   video_frame_queue, audio_frame_queue>>
    /\ UNCHANGED <<regVars, gwVars, cacheVars, syncVars, chanVars, replyVars, teardownVars, mirrorVars, engineVars, requestVars>>

TtsThread == TtsPut
AsrThread == AsrRead(MaxSteps) \/ AsrPut
InferenceThread == InfGet \/ InfPutVideo \/ InfPutAudio
Coupler == CpGetVideo \/ CpVideoTimeout \/ CpGetAudio \/ CpYield

PipeNext ==
    \/ TtsPut
    \/ AsrRead(MaxSteps)
    \/ AsrPut
    \/ InfGet
    \/ InfPutVideo
    \/ InfPutAudio
    \/ CpGetVideo
    \/ CpVideoTimeout
    \/ CpGetAudio
    \/ CpYield

PipeSpec == Init /\ [][PipeNext]_vars

\* Every thread, and the coupler's executor calls, keep being scheduled
FairPipeSpec ==
    /\ Init /\ [][PipeNext]_vars
    /\ WF_vars(TtsThread)
    /\ WF_vars(AsrThread)
    /\ WF_vars(InferenceThread)
    /\ WF_vars(Coupler)

\* The engine between requests: start() has run (warm_up has filled the
\* context frames and left the right-hand context in output_queue), the TTS
\* worker has no text and no process_text generator is reading the frame
\* queues.  The extractor runs until back-pressure stops it, so its step
\* limit is one that is never reached.
IdleSteps == VideoQueueMax + FeatQueueMax + 2

StartedInit ==
    /\ tts = TtsChunks + 1
    /\ input_queue = <<>>
    /\ output_queue = [j \in 1 .. stride_right_size |-> Silence]
    /\ feat_queue = <<>>
    /\ asr = [pc |-> "read", i |-> 0, frames |-> stride_left_size + stride_right_size,
              steps |-> 0, entered |-> 0]
    /\ inference = [pc |-> "wait", i |-> 0, audio_frames |-> <<>>,
                    silence |-> TRUE, index |-> 0]
    /\ video_frame_queue = <<>>
    /\ audio_frame_queue = <<>>
    /\ coupler = [pc |-> "done", video |-> <<>>, audio_frames |-> <<>>, how |-> "none"]
    /\ delivered = <<>>

IdleInit ==
    /\ now = 0
    /\ sessions = <<>>
    /\ tokens = <<>>
    /\ created = <<>>
    /\ last = [op |-> "any", arg |-> None, code |-> 0]
    /\ conns = [c \in Conns |-> FreeConn]
    /\ active_connections = <<>>
    /\ session_contexts = {}
    /\ CacheInit
    /\ StartedInit
    /\ SyncInit
    /\ ChanInit
    /\ ReplyInit
    /\ TeardownInit
    /\ MirrorIdle
    /\ RequestInit
    /\ StopInit
    /\ StreamingInit

IdleNext ==
    \/ AsrRead(IdleSteps)
    \/ AsrPut
    \/ InfGet
    \/ InfPutVideo
    \/ InfPutAudio

IdleSpec == IdleInit /\ [][IdleNext]_vars

---------------------------------------------------------------------------
(* The message loop of websocket_endpoint on user-scoped connections with  *)
(* no token (sessionless mode): two channels opened for one connection_id, *)
(* each running its own copy of the loop on the one event loop.            *)

\* get_ai_engine called from the event loop, where nothing interleaves with
\* it: the cache, the count of constructions and the engine returned
get_ai_engine(cache, made, tutor_id) ==
    IF tutor_id \in DOMAIN cache
    THEN [tutor_engines |-> cache, instances |-> made, engine |-> cache[tutor_id]]
    ELSE LET n == IF tutor_id \in DOMAIN made THEN made[tutor_id] + 1 ELSE 1
         IN  [tutor_engines |-> MapPut(cache, tutor_id, AIEngine(tutor_id, n)),
              instances |-> MapPut(made, tutor_id, n),
              engine |-> AIEngine(tutor_id, n)]

\* What a client can send as one text frame: text that is not JSON, JSON that
\* is not an object, or an object with or without tutor_id; fails says that
\* the engine raises while the object is handled
Messages ==
    {[json |-> "invalid", tutor_id |-> None, fails |-> FALSE],
     [json |-> "array", tutor_id |-> None, fails |-> FALSE]}
    \cup [json : {"object"}, tutor_id : TutorIds \cup {None}, fails : BOOLEAN]

\* A bug that takes every object as carrying a tutor_id
tutor_id_never_missing(message) == FALSE

\* "if not tutor_id" on message.get("tutor_id")
tutor_id_missing(message) == message.tutor_id = None

\* One entry of a channel's log: a message received, the reply sent for it
\* and the engine it was handed to
Reply(message, content, engine) ==
    [message |-> message, reply |-> content, ai_engine |-> engine]

\* One turn of the loop for a message: the reply, the loop's ai_engine local,
\* the engine cache, and whether the loop goes on
serve(ai_engine, cache, made, message) ==
    LET same == [tutor_engines |-> cache, instances |-> made]
    IN  IF message.json = "invalid"
        THEN \* json.loads raises JSONDecodeError: handler outside the loop
             [log |-> Reply(message, "Invalid message format", NoEngine),
              ai_engine |-> ai_engine, cache |-> same, open |-> FALSE]
        ELSE IF message.json # "object"
        THEN \* message.get raises AttributeError: "except Exception" outside the loop
             [log |-> Reply(message, "Internal server error", NoEngine),
              ai_engine |-> ai_engine, cache |-> same, open |-> FALSE]
        ELSE IF tutor_id_missing(message)
        THEN [log |-> Reply(message, "tutor_id is required in sessionless mode",
                           NoEngine),
              ai_engine |-> ai_engine, cache |-> same, open |-> TRUE]
        ELSE LET r == IF ai_engine = NoEngine
                      THEN get_ai_engine(cache, made, message.tutor_id)
                      ELSE [tutor_engines |-> cache, instances |-> made,
                            engine |-> ai_engine]
             IN  \* handle_message: its own try/except replies and returns
                 [log |-> Reply(message,
                                IF message.fails THEN "Failed to process message"
                                ELSE "text", r.engine),
                  ai_engine |-> r.engine,
                  cache |-> [tutor_engines |-> r.tutor_engines,
                             instances |-> r.instances],
                  open |-> TRUE]

\* websocket_endpoint up to the loop: accept, enter the live-connections map
ChanConnect(s) ==
    /\ channels[s].state = "new"
    /\ IF s = 1 THEN TRUE ELSE channels[s - 1].state # "new"
    /\ channels' = [channels EXCEPT ![s].state = "serving"]
    /\ active_connections' = MapPut(active_connections, ChanId, s)
    /\ UNCHANGED <<regVars, conns, session_contexts, cacheVars, pipeVars, syncVars, replyVars, teardownVars, mirrorVars, engineVars, requestVars>>

\* receive_text returns a frame: one turn of the loop, and the finally clause
\* where the turn leaves the loop
ChanMessage(s) ==
    /\ channels[s].state = "serving"
    /\ Len(channels[s].log) < MaxMsgs
    /\ \E message \in Messages :
          LET r == serve(channels[s].ai_engine, tutor_engines, instances, message)
          IN  /\ channels' = [channels EXCEPT
                     ![s].log = Append(@, r.log),
                     ![s].ai_engine = r.ai_engine,
                     ![s].state = IF r.open THEN "serving" ELSE "returned"]
              /\ tutor_engines' = r.cache.tutor_engines
              /\ instances' = r.cache.instances
              /\ active_connections' =
                    IF r.open THEN active_connections
                    ELSE MapPop(active_connections, ChanId)
    /\ UNCHANGED <<regVars, conns, session_contexts, engines_lock, callers, handed,
                   pipeVars, syncVars, replyVars, teardownVars, mirrorVars, engineVars, requestVars>>

\* receive_text raises WebSocketDisconnect: the finally clause pops the key
ChanDisconnect(s) ==
    /\ channels[s].state = "serving"
    /\ channels' = [channels EXCEPT ![s].state = "disconnected"]
    /\ active_connections' = MapPop(active_connections, ChanId)
    /\ UNCHANGED <<regVars, conns, session_contexts, cacheVars, pipeVars, syncVars, replyVars, teardownVars, mirrorVars, engineVars, requestVars>>

ChannelNext ==
    \/ \E s \in Sockets : ChanConnect(s)
    \/ \E s \in Sockets : ChanMessage(s)
    \/ \E s \in Sockets : ChanDisconnect(s)

ChannelSpec == Init /\ [][ChannelNext]_vars

---------------------------------------------------------------------------
(* The replies of one connection: websocket_endpoint's loop calling        *)
(* handle_message, the background video task a text message spawns, the    *)
(* candidates and the answer of a webrtc_offer (WebRTCStreamer.handle_offer)*)
(* and the webrtc_state notifications of the peer connection.              *)

\* "'typ relay' in line": the test both filters apply to a candidate line
typ_relay_any(candidate) == TRUE

typ_relay(candidate) == candidate = "relay"

\* _modify_sdp_for_public_ip on the candidate lines of the local description
\* (every other line is kept as it is)
modify_sdp_for_public_ip(sdp) == SelectSeq(sdp, typ_relay)

\* A message sent on the websocket: of is the inbound message it answers
\* (0 for a notification), sdp the candidates it carries
Out(n, type, sdp) == [of |-> n, type |-> type, sdp |-> sdp]

\* _send_ice_candidates_from_sdp: one message per relay candidate of the SDP
RECURSIVE send_ice_candidates_from_sdp(_, _)
send_ice_candidates_from_sdp(n, sdp) ==
    IF sdp = <<>> THEN <<>>
    ELSE (IF typ_relay(Head(sdp))
          THEN <<Out(n, "webrtc_ice_candidate", <<Head(sdp)>>)>> ELSE <<>>)
         \o send_ice_candidates_from_sdp(n, Tail(sdp))

\* handle_offer, then the webrtc_offer branch of handle_message: what is sent,
\* in the order it is sent
offer_replies(n, sdp) ==
    LET modified_sdp == modify_sdp_for_public_ip(sdp)
    IN  send_ice_candidates_from_sdp(n, modified_sdp)
        \o <<Out(n, "webrtc_answer", modified_sdp)>>

\* What the client sends and what the engine does with it: outcome "none" is
\* an engine call that returns nothing, "raises" one that raises
MessageTypes == {"init", "text", "audio", "webrtc_offer"}
Outcomes     == {"ok", "none", "raises"}
Inbound      == [type : MessageTypes, avatar_id : BOOLEAN, user_id : BOOLEAN,
                 tutor_id : BOOLEAN]
CandidateTypes == {"host", "srflx", "relay"}
LocalSdps    == UNION {[1 .. k -> CandidateTypes] : k \in 0 .. MaxCandidates}

Err(n) == Out(n, "error", <<>>)

\* handle_message: the replies awaited before it returns
handle_message(n, message, outcome, sdp) ==
    IF outcome = "raises" THEN <<Err(n)>>
    ELSE IF message.type = "init" THEN
         IF ~message.avatar_id THEN <<Err(n)>>
         ELSE IF enable_avatar /\ outcome # "none" THEN <<Out(n, "video", <<>>)>>
         ELSE <<Err(n)>>
    ELSE IF message.type = "text" THEN
         IF message.user_id THEN <<Out(n, "text", <<>>)>>
         ELSE <<Out(n, "text", <<>>), Out(n, "audio", <<>>)>>
    ELSE IF message.type = "audio" THEN
         IF enable_avatar /\ message.avatar_id /\ outcome # "none"
         THEN <<Out(n, "transcription", <<>>), Out(n, "video", <<>>)>>
         ELSE <<Out(n, "transcription", <<>>), Out(n, "audio", <<>>)>>
    ELSE \* webrtc_offer
         IF ~message.user_id THEN <<Err(n)>>
         ELSE offer_replies(n, sdp)

\* "asyncio.create_task(generate_video_background())" at the end of the text
\* branch
spawns_video(message, outcome) ==
    /\ message.type = "text"
    /\ outcome \in {"ok", "none"}
    /\ enable_avatar /\ message.avatar_id

\* The loop's turn for a message: in sessionless mode a message without
\* tutor_id is refused before handle_message
turn(served_as, n, message, outcome, sdp) ==
    IF served_as = "sessionless" /\ ~message.tutor_id
    THEN [message |-> message, outcome |-> outcome, handled |-> FALSE,
          todo |-> <<Err(n)>>, spawn |-> FALSE]
    ELSE [message |-> message, outcome |-> outcome, handled |-> TRUE,
          todo |-> handle_message(n, message, outcome, sdp),
          spawn |-> spawns_video(message, outcome)]

\* A bug that reads the next message while a handler still runs
handler_not_awaited(hs) == TRUE

\* "await handle_message(...)" before the next receive_text
handler_awaited(hs) == \A n \in 1 .. Len(hs) : hs[n].todo = <<>>

\* websocket_endpoint up to the loop: the mode of the connection
ReplyConnect ==
    /\ mode = "none"
    /\ mode' \in {"session", "user", "sessionless"}
    /\ UNCHANGED <<handlers, sent, tasks, peer>>
    /\ UNCHANGED <<regVars, gwVars, cacheVars, pipeVars, syncVars, chanVars, teardownVars, mirrorVars, engineVars, requestVars>>

\* receive_text returns, the message is routed and handle_message starts; a
\* webrtc_offer that finds no peer connection creates one, whose local
\* description holds the candidates gathered
ReplyReceive ==
    /\ mode # "none"
    /\ Len(handlers) < MaxInbound
    /\ handler_awaited(handlers)
    /\ \E message \in Inbound, outcome \in Outcomes :
       \E sdp \in IF message.type # "webrtc_offer" THEN {<<>>}
                   ELSE IF peer.state # "none" THEN {peer.sdp} ELSE LocalSdps :
          LET n == Len(handlers) + 1
              t == turn(mode, n, message, outcome, sdp)
              offered == /\ t.handled /\ message.type = "webrtc_offer"
                         /\ message.user_id /\ outcome # "raises"
          IN  \* fields and outcomes the branch taken never reads are not varied
              /\ message.type \in {"init", "audio"} => ~message.user_id
              /\ message.type = "webrtc_offer" => ~message.avatar_id
              /\ message.type \in {"text", "webrtc_offer"} => outcome # "none"
              /\ (message.type \in {"init", "audio"} /\ ~message.avatar_id)
                    => outcome # "none"
              /\ (message.type = "init" /\ ~message.avatar_id) => outcome = "ok"
              /\ (message.type = "webrtc_offer" /\ ~message.user_id) => outcome = "ok"
              /\ (message.type \in {"text", "audio"} /\ outcome = "raises")
                    => ~message.avatar_id /\ ~message.user_id
              /\ mode # "sessionless" => message.tutor_id
              /\ ~t.handled => outcome = "ok"
              /\ (~t.handled /\ message.type # "init")
                    => ~message.avatar_id /\ ~message.user_id
              /\ handlers' = Append(handlers, t)
              /\ peer' = IF offered /\ peer.state = "none"
                         THEN [state |-> "new", sdp |-> sdp]
                         ELSE peer
    /\ UNCHANGED <<mode, sent, tasks>>
    /\ UNCHANGED <<regVars, gwVars, cacheVars, pipeVars, syncVars, chanVars, teardownVars, mirrorVars, engineVars, requestVars>>

\* one awaited send of the running handler; after its last one the handler
\* spawns the background task and returns
ReplySend(n) ==
    /\ n \in 1 .. Len(handlers)
    /\ handlers[n].todo # <<>>
    /\ sent' = Append(sent, Head(handlers[n].todo))
    /\ handlers' = [handlers EXCEPT ![n].todo = Tail(@)]
    /\ tasks' = IF Len(handlers[n].todo) = 1 /\ handlers[n].spawn
                THEN tasks \cup {n} ELSE tasks
    /\ UNCHANGED <<mode, peer>>
    /\ UNCHANGED <<regVars, gwVars, cacheVars, pipeVars, syncVars, chanVars, teardownVars, mirrorVars, engineVars, requestVars>>

\* generate_video_background: the video reply, or nothing where generate_video
\* returns nothing or raises
BackgroundVideo(n) ==
    /\ n \in tasks
    /\ tasks' = tasks \ {n}
    /\ \E video_response \in BOOLEAN :
          sent' = IF video_response THEN Append(sent, Out(n, "video", <<>>))
                  ELSE sent
    /\ UNCHANGED <<mode, handlers, peer>>
    /\ UNCHANGED <<regVars, gwVars, cacheVars, pipeVars, syncVars, chanVars, teardownVars, mirrorVars, engineVars, requestVars>>

\* on_connectionstatechange: the peer connection becomes connected and the
\* client is notified on the websocket the offer came on
PeerStateChange ==
    /\ peer.state = "new"
    /\ sent' = Append(sent, Out(0, "webrtc_state", <<>>))
    /\ peer' = [peer EXCEPT !.state = "connected"]
    /\ UNCHANGED <<mode, handlers, tasks>>
    /\ UNCHANGED <<regVars, gwVars, cacheVars, pipeVars, syncVars, chanVars, teardownVars, mirrorVars, engineVars, requestVars>>

ReplyNext ==
    \/ ReplyConnect
    \/ ReplyReceive
    \/ \E n \in 1 .. MaxInbound : ReplySend(n)
    \/ \E n \in 1 .. MaxInbound : BackgroundVideo(n)
    \/ PeerStateChange

ReplySpec == Init /\ [][ReplyNext]_vars

---------------------------------------------------------------------------
(* Teardown of a media session: WebRTCStreamer.close_connection, called by *)
(* on_connectionstatechange on failed or closed and by handle_offer on a   *)
(* closed peer connection.  One session_id is followed; its successive     *)
(* media sessions are numbered 1, 2, ...  The calls are coroutines of one  *)
(* event loop: they interleave at "await pc.close()" and nowhere else      *)
(* (end_stream puts on an unbounded queue).                                *)


\* "session_id in self.connections"
in_connections(s) == s.connections # None

\* close_connection up to "await self.connections[session_id].close()": the
\* tracks are ended and deleted
close_tracks(s) == [s EXCEPT !.video_tracks = None, !.audio_tracks = None]

\* close_connection after the await: "del self.connections[session_id]" and
\* the websocket reference
close_entries(s) == [s EXCEPT !.connections = None, !.websockets = None]

\* create_peer_connection: the next media session is registered in all maps
MediaCreate ==
    /\ streamer.connections = None
    /\ streamer.made < MaxGenerations
    /\ LET g == streamer.made + 1
       IN  streamer' = [streamer EXCEPT !.made = g, !.connections = g,
                           !.video_tracks = g, !.audio_tracks = g, !.websockets = g]
    /\ UNCHANGED closers
    /\ UNCHANGED <<regVars, gwVars, cacheVars, pipeVars, syncVars, chanVars, replyVars, mirrorVars, engineVars, requestVars>>

\* the registered peer connection's state becomes failed or closed
MediaDown ==
    /\ streamer.connections # None
    /\ streamer.connections \notin streamer.down
    /\ streamer' = [streamer EXCEPT !.down = @ \cup {streamer.connections}]
    /\ UNCHANGED closers
    /\ UNCHANGED <<regVars, gwVars, cacheVars, pipeVars, syncVars, chanVars, replyVars, mirrorVars, engineVars, requestVars>>

\* close_connection is called for a media session that went down, or again
\* after its teardown; it returns at once where no entry is found, else runs
\* to its await on the peer connection it found
CloseBegin(c) ==
    /\ closers[c].at \in {"idle", "done"}
    /\ streamer.down # {}
    /\ streamer.connections # None => streamer.connections \in streamer.down
    /\ IF in_connections(streamer)
       THEN /\ streamer' = close_tracks(streamer)
            /\ closers' = [closers EXCEPT ![c] = [at |-> "closing",
                                                  pc |-> streamer.connections]]
       ELSE /\ closers' = [closers EXCEPT ![c] = [at |-> "done", pc |-> None]]
            /\ UNCHANGED streamer
    /\ UNCHANGED <<regVars, gwVars, cacheVars, pipeVars, syncVars, chanVars, replyVars, mirrorVars, engineVars, requestVars>>

\* pc.close() has returned: the entry is deleted, KeyError where it is gone
CloseResume(c) ==
    /\ closers[c].at = "closing"
    /\ IF streamer.connections = None
       THEN /\ closers' = [closers EXCEPT ![c].at = "KeyError"]
            /\ UNCHANGED streamer
       ELSE /\ streamer' = [close_entries(streamer) EXCEPT
                   !.lost = IF streamer.connections = closers[c].pc THEN @
                            ELSE @ \cup {streamer.connections}]
            /\ closers' = [closers EXCEPT ![c].at = "done"]
    /\ UNCHANGED <<regVars, gwVars, cacheVars, pipeVars, syncVars, chanVars, replyVars, mirrorVars, engineVars, requestVars>>

TeardownNext ==
    \/ MediaCreate
    \/ MediaDown
    \/ \E c \in Closers : CloseBegin(c)
    \/ \E c \in Closers : CloseResume(c)

TeardownSpec == Init /\ [][TeardownNext]_vars

---------------------------------------------------------------------------
(* mirror_index (streaming_engine.py, base_real.py, realtime_engine.py: the *)
(* three definitions compute the same value): the position in an avatar     *)
(* cycle of `size` frames that the logical frame index `index` stands for,  *)
(* running forwards in even turns and backwards in odd ones.  MirrorSpec    *)
(* draws the cycle length and the index and applies the function, once and  *)
(* then a second time to its own result.                                   *)

\* An off-by-one in the backward turn: size - res for size - res - 1
mirror_index_off(size, index) ==
    LET nturn == index \div size     \* turn = index // size
        res   == index % size
    IN  IF nturn % 2 = 0 THEN res ELSE size - res

\* mirror_index(size, index)
mirror_index(size, index) ==
    LET nturn == index \div size     \* turn = index // size
        res   == index % size
    IN  IF nturn % 2 = 0 THEN res ELSE size - res - 1

\* The cycle lengths and logical indices drawn
CycleLengths == 1 .. MaxCycle
Indices      == 0 .. MaxIndex

MirrorInit ==
    /\ now = 0
    /\ sessions = <<>>
    /\ tokens = <<>>
    /\ created = <<>>
    /\ last = [op |-> "any", arg |-> None, code |-> 0]
    /\ conns = [c \in Conns |-> FreeConn]
    /\ active_connections = <<>>
    /\ session_contexts = {}
    /\ CacheInit
    /\ PipeInit
    /\ SyncInit
    /\ ChanInit
    /\ ReplyInit
    /\ TeardownInit
    /\ RequestInit
    /\ StopInit
    /\ StreamingInit
    /\ \E size \in CycleLengths, index \in Indices : mirror = NoCall(size, index)

\* idx = mirror_index(length, index)
MirrorCall ==
    /\ mirror.idx = Uncalled
    /\ mirror' = [mirror EXCEPT !.idx = mirror_index(mirror.size, mirror.index)]
    /\ UNCHANGED <<regVars, gwVars, cacheVars, pipeVars, syncVars, chanVars, replyVars, teardownVars, requestVars, engineVars>>

\* The function applied a second time: to its own result as it stands
\* (same_turn FALSE), or to its result moved back into the turn the index
\* came from, which gives the second call the turn parity of the first
MirrorAgain(same_turn) ==
    /\ mirror.idx # Uncalled
    /\ mirror.again = Uncalled
    /\ LET nturn == mirror.index \div mirror.size
           arg   == IF same_turn THEN nturn * mirror.size + mirror.idx ELSE mirror.idx
       IN  mirror' = [mirror EXCEPT !.same_turn = same_turn,
                                    !.again = mirror_index(mirror.size, arg)]
    /\ UNCHANGED <<regVars, gwVars, cacheVars, pipeVars, syncVars, chanVars, replyVars, teardownVars, requestVars, engineVars>>

\* index += 1: the caller moves on to the next frame, the position of the
\* frame before it kept in prev
NextFrame ==
    /\ mirror.idx # Uncalled
    /\ mirror.index < MaxIndex
    /\ mirror' = [NoCall(mirror.size, mirror.index + 1) EXCEPT !.prev = mirror.idx]
    /\ UNCHANGED <<regVars, gwVars, cacheVars, pipeVars, syncVars, chanVars, replyVars, teardownVars, requestVars, engineVars>>

MirrorNext ==
    \/ MirrorCall
    \/ MirrorAgain(TRUE)
    \/ MirrorAgain(FALSE)
    \/ NextFrame

MirrorSpec == MirrorInit /\ [][MirrorNext]_vars

---------------------------------------------------------------------------
(* One StreamingLipSyncEngine serving several requests (process_text), in   *)
(* units of one batch: one read of run_step, one feature batch, one batch   *)
(* of frames with its audio.  The engine's threads run from start() on and  *)
(* are never restarted; get_streaming_engine hands the one engine of an     *)
(* avatar to every caller and nothing serialises the callers, so a request  *)
(* may begin while another is running.  The two frame queues are followed   *)
(* as one queue of frames, each with its audio (their coupling is followed  *)
(* in PipeSpec).  _clear_queues runs in the event loop's thread, between    *)
(* any two steps of the worker threads.                                    *)

\* Audio read by run_step when input_queue is empty: silence, of no request
SilentBatch == [req |-> 0, end |-> FALSE]

\* StreamingLipSyncEngine._clear_queues with StreamingASR.flush
clear_queues(e) ==
    [e EXCEPT !.video_frame_queue = <<>>, !.input_queue = <<>>,
              !.output_queue = <<>>, !.feat_queue = <<>>, !.frames = "empty"]

\* process_text up to its first await: the drain, then the text handed to
\* TTS; alone records that no other request was running at that point
RequestBegin(r) ==
    /\ requests[r].state = "new"
    /\ r = 1 \/ requests[IF r = 1 THEN 1 ELSE r - 1].state # "new"
    /\ lipsync' = [clear_queues(lipsync) EXCEPT
                      !.text_queue = Append(lipsync.text_queue, r)]
    /\ requests' = [requests EXCEPT ![r].state = "running",
                       ![r].alone = \A q \in Requests : requests[q].state # "running"]
    /\ UNCHANGED <<regVars, gwVars, cacheVars, pipeVars, syncVars, chanVars, replyVars, teardownVars, mirrorVars, engineVars>>

\* _stream_tts: the status of the eventpoint on the chunk of silence put when
\* the synthesis of a text fails: 'end' where no audio came back or ffmpeg
\* failed, 'error' in the except clause
failure_status(outcome) == IF outcome = "exception" THEN "error" ELSE "end"

\* StreamingTTSWorker._run: the next text is taken and _stream_tts begins; it
\* goes on to put the text's audio, or fails and puts one chunk of silence.
\* marker keeps the status put for the text taken last, if it failed.
EngineTtsTake ==
    /\ lipsync.tts.left = 0
    /\ lipsync.text_queue # <<>>
    /\ \E outcome \in {"ok", "no_audio", "ffmpeg", "exception"} :
         LET r == Head(lipsync.text_queue)
         IN  IF outcome = "ok"
             THEN lipsync' = [lipsync EXCEPT !.text_queue = Tail(@),
                      !.tts = [req |-> r, left |-> SpeechBatches, marker |-> "none"]]
             ELSE lipsync' = [lipsync EXCEPT !.text_queue = Tail(@),
                      !.input_queue = Append(@,
                            [req |-> r, end |-> failure_status(outcome) = "end"]),
                      !.tts = [req |-> r, left |-> 0,
                               marker |-> failure_status(outcome)]]
    /\ UNCHANGED <<requests, regVars, gwVars, cacheVars, pipeVars, syncVars, chanVars, replyVars, teardownVars, mirrorVars, engineVars>>

\* _stream_tts: a batch of the text's audio goes to the ASR input, the last
\* one carrying the end marker
EngineTtsPut ==
    /\ lipsync.tts.left > 0
    /\ lipsync' = [lipsync EXCEPT
                      !.input_queue = Append(@, [req |-> lipsync.tts.req,
                                                 end |-> lipsync.tts.left = 1]),
                      !.tts.left = @ - 1]
    /\ UNCHANGED <<requests, regVars, gwVars, cacheVars, pipeVars, syncVars, chanVars, replyVars, teardownVars, mirrorVars, engineVars>>

\* run_step, its reads: audio (or silence) goes to self.frames and to
\* output_queue
EngineAsrRead ==
    /\ lipsync.asr.pc = "read"
    /\ Len(lipsync.output_queue) < QueueCap
    /\ LET audio == IF lipsync.input_queue # <<>> THEN Head(lipsync.input_queue)
                    ELSE SilentBatch
       IN  lipsync' = [lipsync EXCEPT
                          !.input_queue = IF @ # <<>> THEN Tail(@) ELSE @,
                          !.output_queue = Append(@, audio),
                          !.frames = "full",
                          !.asr = [pc |-> "check", req |-> audio.req]]
    /\ UNCHANGED <<requests, regVars, gwVars, cacheVars, pipeVars, syncVars, chanVars, replyVars, teardownVars, mirrorVars, engineVars>>

\* run_step: 'if len(self.frames) <= stride_left_size + stride_right_size: return'
EngineAsrCheck ==
    /\ lipsync.asr.pc = "check"
    /\ lipsync' = [lipsync EXCEPT
                      !.asr.pc = IF lipsync.frames = "full" THEN "concat" ELSE "read"]
    /\ UNCHANGED <<requests, regVars, gwVars, cacheVars, pipeVars, syncVars, chanVars, replyVars, teardownVars, mirrorVars, engineVars>>

\* run_step: np.concatenate(self.frames) raises ValueError on an empty list
\* ("dead"), and audio2feat or feature2chunks may raise on the audio they are
\* given ("raised"); _asr_loop catches nothing, so either way the thread ends
EngineAsrConcat ==
    /\ lipsync.asr.pc = "concat"
    /\ \E raises \in BOOLEAN :
           lipsync' = [lipsync EXCEPT
                          !.asr.pc = IF lipsync.frames = "empty" THEN "dead"
                                     ELSE IF raises THEN "raised" ELSE "put"]
    /\ UNCHANGED <<requests, regVars, gwVars, cacheVars, pipeVars, syncVars, chanVars, replyVars, teardownVars, mirrorVars, engineVars>>

\* run_step: feat_queue.put (blocks while the queue is full), then the
\* context frames are kept
EngineAsrPut ==
    /\ lipsync.asr.pc = "put"
    /\ Len(lipsync.feat_queue) < FeatQueueMax
    /\ lipsync' = [lipsync EXCEPT
                      !.feat_queue = Append(@, lipsync.asr.req),
                      !.frames = IF @ = "empty" THEN "empty" ELSE "context",
                      !.asr.pc = "read"]
    /\ UNCHANGED <<requests, regVars, gwVars, cacheVars, pipeVars, syncVars, chanVars, replyVars, teardownVars, mirrorVars, engineVars>>

\* _inference_loop: feat_queue.get(timeout=1), retried while empty
InferFeat ==
    /\ lipsync.inference.pc = "feat"
    /\ lipsync.feat_queue # <<>>
    /\ lipsync' = [lipsync EXCEPT !.feat_queue = Tail(@),
                      !.inference.pc = "audio",
                      !.inference.feat = Head(lipsync.feat_queue)]
    /\ UNCHANGED <<requests, regVars, gwVars, cacheVars, pipeVars, syncVars, chanVars, replyVars, teardownVars, mirrorVars, engineVars>>

\* _inference_loop: the batch's audio, output_queue.get() with no timeout
InferAudio ==
    /\ lipsync.inference.pc = "audio"
    /\ lipsync.output_queue # <<>>
    /\ lipsync' = [lipsync EXCEPT !.output_queue = Tail(@),
                      !.inference.pc = "put",
                      !.inference.audio = Head(lipsync.output_queue)]
    /\ UNCHANGED <<requests, regVars, gwVars, cacheVars, pipeVars, syncVars, chanVars, replyVars, teardownVars, mirrorVars, engineVars>>

\* _inference_loop: the batch's frames go out with their audio, index moves
\* on by batch_size.  A batch with speech goes through the UNet and the VAE
\* first, outside any try: an exception there ends the thread ("raised")
\* with the batch's features and audio taken and nothing put.  The run is cut
\* at MaxBatches batches, or, where it is endless, index is followed modulo
\* 2 * cycle_length, the period of mirror_index.
InferPutAs(endless) ==
    /\ lipsync.inference.pc = "put"
    /\ \E raises \in {FALSE} \cup {lipsync.inference.audio.req # 0} :
           IF raises
           THEN lipsync' = [lipsync EXCEPT !.inference.pc = "raised"]
           ELSE /\ Len(lipsync.video_frame_queue) < QueueCap
                /\ endless \/ lipsync.inference.index < MaxBatches * batch_size
                /\ lipsync' = [lipsync EXCEPT
                      !.video_frame_queue = Append(@,
                            [index |-> lipsync.inference.index,
                             feat  |-> lipsync.inference.feat,
                             req   |-> lipsync.inference.audio.req,
                             end   |-> lipsync.inference.audio.end]),
                      !.inference = [pc |-> "feat", feat |-> 0, audio |-> SilentBatch,
                                     index |-> IF endless
                                               THEN (lipsync.inference.index + batch_size)
                                                        % (2 * cycle_length)
                                               ELSE lipsync.inference.index + batch_size]]
    /\ UNCHANGED <<requests, regVars, gwVars, cacheVars, pipeVars, syncVars, chanVars, replyVars, teardownVars, mirrorVars, engineVars>>

InferPut == InferPutAs(FALSE)

InferPutOn == InferPutAs(TRUE)

\* process_text: a frame is taken with its audio and yielded; the request
\* ends on the end marker, whichever text it closed
Consume(r) ==
    /\ requests[r].state = "running"
    /\ lipsync.video_frame_queue # <<>>
    /\ LET f == Head(lipsync.video_frame_queue)
       IN  /\ requests' = [requests EXCEPT
                  ![r].state = IF f.end THEN "done" ELSE "running",
                  ![r].first = IF @ = Uncalled THEN f.index ELSE @,
                  ![r].latest = f.index,
                  ![r].of = @ \cup ({f.feat, f.req} \ {0})]
           /\ lipsync' = [lipsync EXCEPT !.video_frame_queue = Tail(@)]
    /\ UNCHANGED <<regVars, gwVars, cacheVars, pipeVars, syncVars, chanVars, replyVars, teardownVars, mirrorVars, engineVars>>

\* process_text: video_frame_queue.get(timeout=3) raises Empty and both
\* queues are empty: the stream ends
ConsumeTimeout(r) ==
    /\ requests[r].state = "running"
    /\ lipsync.video_frame_queue = <<>>
    /\ requests' = [requests EXCEPT ![r].state = "done"]
    /\ UNCHANGED <<lipsync, regVars, gwVars, cacheVars, pipeVars, syncVars, chanVars, replyVars, teardownVars, mirrorVars, engineVars>>

RequestNext ==
    \/ \E r \in Requests : RequestBegin(r)
    \/ EngineTtsTake
    \/ EngineTtsPut
    \/ EngineAsrRead
    \/ EngineAsrCheck
    \/ EngineAsrConcat
    \/ EngineAsrPut
    \/ InferFeat
    \/ InferAudio
    \/ InferPut
    \/ \E r \in Requests : Consume(r)
    \/ \E r \in Requests : ConsumeTimeout(r)

RequestSpec == Init /\ [][RequestNext]_vars

\* The same engine with no cut on the batches it puts: its threads run for as
\* long as the process does.  One request is made.
EndlessNext ==
    \/ RequestBegin(1)
    \/ EngineTtsTake
    \/ EngineTtsPut
    \/ EngineAsrRead
    \/ EngineAsrCheck
    \/ EngineAsrConcat
    \/ EngineAsrPut
    \/ InferFeat
    \/ InferAudio
    \/ InferPutOn
    \/ \E r \in Requests : Consume(r)
    \/ \E r \in Requests : ConsumeTimeout(r)

\* Every thread of the engine is scheduled, a waiting process_text takes the
\* frame that is there, and its 3 s timeout expires if no frame comes
EndlessSpec ==
    /\ Init
    /\ [][EndlessNext]_vars
    /\ WF_vars(EngineTtsTake)
    /\ WF_vars(EngineTtsPut)
    /\ WF_vars(EngineAsrRead)
    /\ WF_vars(EngineAsrCheck)
    /\ WF_vars(EngineAsrConcat)
    /\ WF_vars(EngineAsrPut)
    /\ WF_vars(InferFeat)
    /\ WF_vars(InferAudio)
    /\ WF_vars(InferPutOn)
    /\ \A r \in Requests : WF_vars(Consume(r)) /\ WF_vars(ConsumeTimeout(r))

---------------------------------------------------------------------------
(* stop() of StreamingLipSyncEngine against its three threads.  The queues *)
(* are followed by their lengths, in batches.  A put on a full queue and   *)
(* a get without timeout on an empty one block: the action is disabled.    *)
(***************************************************************************)

\* StreamingTTSWorker._run: the loop tests quit_event, waits 0.5 s for a text
\* and streams it
TtsRun ==
    /\ workers.tts # "stopped"
    /\ \E text \in BOOLEAN :
           workers' = [workers EXCEPT
               !.tts = IF workers.tts = "stream" THEN "get"
                       ELSE IF workers.quit_event THEN "stopped"
                       ELSE IF text THEN "stream" ELSE "get"]
    /\ UNCHANGED <<streaming, regVars, gwVars, cacheVars, pipeVars, syncVars, chanVars, replyVars, teardownVars, mirrorVars, requestVars>>

\* _asr_loop: the loop tests quit_event and calls run_step, which puts the
\* audio frames on output_queue and then the features on feat_queue
AsrLoop ==
    /\ \/ /\ workers.asr = "step"
          /\ workers' = IF workers.quit_event
                        THEN [workers EXCEPT !.asr = "stopped"]
                        ELSE [workers EXCEPT !.asr = "put", !.output_queue = @ + 1]
       \/ /\ workers.asr = "put"
          /\ workers.feat_queue < FeatQueueMax
          /\ workers' = [workers EXCEPT !.asr = "step", !.feat_queue = @ + 1]
    /\ UNCHANGED <<streaming, regVars, gwVars, cacheVars, pipeVars, syncVars, chanVars, replyVars, teardownVars, mirrorVars, requestVars>>

\* _inference_loop: the loop tests render_event, waits 1 s for a feature
\* batch, takes the batch's audio frames with output_queue.get() and puts the
\* frames with video_frame_queue.put(), neither with a timeout
InferenceLoop ==
    /\ \/ /\ workers.inference = "feat"
          /\ ~workers.render_event
          /\ workers' = [workers EXCEPT !.inference = "stopped"]
       \/ /\ workers.inference = "feat"
          /\ workers.render_event
          /\ workers.feat_queue > 0
          /\ workers' = [workers EXCEPT !.inference = "audio", !.feat_queue = @ - 1]
       \/ /\ workers.inference = "audio"
          /\ workers.output_queue > 0
          /\ workers' = [workers EXCEPT !.inference = "put", !.output_queue = @ - 1]
       \/ /\ workers.inference = "put"
          /\ workers.video_frame_queue < QueueCap
          /\ workers' = [workers EXCEPT !.inference = "feat",
                                        !.video_frame_queue = @ + 1]
    /\ UNCHANGED <<streaming, regVars, gwVars, cacheVars, pipeVars, syncVars, chanVars, replyVars, teardownVars, mirrorVars, requestVars>>

\* process_text of a running request takes a batch from video_frame_queue
TakeFrame ==
    /\ workers.video_frame_queue > 0
    /\ workers' = [workers EXCEPT !.video_frame_queue = @ - 1]
    /\ UNCHANGED <<streaming, regVars, gwVars, cacheVars, pipeVars, syncVars, chanVars, replyVars, teardownVars, mirrorVars, requestVars>>

\* The thread is inside a queue call that cannot return as the queues stand
blocked(thread) ==
    \/ /\ thread = "asr"
       /\ workers.asr = "put"
       /\ workers.feat_queue >= FeatQueueMax
    \/ /\ thread = "inference"
       /\ \/ workers.inference = "audio" /\ workers.output_queue = 0
          \/ workers.inference = "put" /\ workers.video_frame_queue >= QueueCap

\* Thread.join(timeout=2) by stop(): it returns when the thread has ended, or
\* after the timeout with the thread alive where the thread is blocked
join(thread, then) ==
    IF workers[thread] = "stopped"
    THEN workers' = [workers EXCEPT !.stop = then, !.joined = @ \cup {thread}]
    ELSE /\ blocked(thread)
         /\ workers' = [workers EXCEPT !.stop = then]

\* StreamingLipSyncEngine.stop: the events, the two joins, _clear_queues and
\* tts.flush; the TTS worker's thread is not joined
StopEngine ==
    /\ \/ /\ workers.stop = "idle"
          /\ workers' = [workers EXCEPT !.render_event = FALSE, !.quit_event = TRUE,
                                        !.stop = "join_inference"]
       \/ /\ workers.stop = "join_inference"
          /\ join("inference", "join_asr")
       \/ /\ workers.stop = "join_asr"
          /\ join("asr", "clear")
       \/ /\ workers.stop = "clear"
          /\ workers' = [workers EXCEPT !.video_frame_queue = 0, !.output_queue = 0,
                                        !.feat_queue = 0, !.stop = "returned"]
    /\ UNCHANGED <<streaming, regVars, gwVars, cacheVars, pipeVars, syncVars, chanVars, replyVars, teardownVars, mirrorVars, requestVars>>

StopNext ==
    \/ TtsRun
    \/ AsrLoop
    \/ InferenceLoop
    \/ TakeFrame
    \/ StopEngine

StopSpec == Init /\ [][StopNext]_vars

---------------------------------------------------------------------------
(* get_streaming_engine: the module's cache of started engines, used by    *)
(* request threads and by the warm-up thread.  No lock is taken.  The      *)
(* engines made for an avatar are numbered in the order of their start().  *)
(***************************************************************************)

\* get_streaming_engine, the test "avatar_id not in _streaming_engines"
GetStreamingEngine(t, a) ==
    /\ streaming.callers[t].pc = "idle"
    /\ streaming.callers[t].calls < MaxCalls
    /\ streaming' = [streaming EXCEPT
           !.callers[t] = [pc |-> IF streaming.engines[a] = None
                                 THEN "create" ELSE "return",
                          avatar |-> a, engine |-> None, calls |-> @.calls + 1]]
    /\ UNCHANGED <<workers, regVars, gwVars, cacheVars, pipeVars, syncVars, chanVars, replyVars, teardownVars, mirrorVars, requestVars>>

\* StreamingLipSyncEngine(...), engine.setup() and engine.start(): the models
\* are loaded and the engine's three threads started
SetupAndStart(t) ==
    /\ streaming.callers[t].pc = "create"
    /\ LET a == streaming.callers[t].avatar
       IN  streaming' = [streaming EXCEPT
               !.started[a] = @ + 1,
               !.callers[t].engine = streaming.started[a] + 1,
               !.callers[t].pc = "store"]
    /\ UNCHANGED <<workers, regVars, gwVars, cacheVars, pipeVars, syncVars, chanVars, replyVars, teardownVars, mirrorVars, requestVars>>

\* _streaming_engines[avatar_id] = engine
StoreEngine(t) ==
    /\ streaming.callers[t].pc = "store"
    /\ streaming' = [streaming EXCEPT
           !.engines[streaming.callers[t].avatar] = streaming.callers[t].engine,
           !.callers[t].pc = "return"]
    /\ UNCHANGED <<workers, regVars, gwVars, cacheVars, pipeVars, syncVars, chanVars, replyVars, teardownVars, mirrorVars, requestVars>>

\* return _streaming_engines[avatar_id]
ReturnEngine(t) ==
    /\ streaming.callers[t].pc = "return"
    /\ LET a == streaming.callers[t].avatar
       IN  streaming' = [streaming EXCEPT
               !.got = @ \cup {<<a, streaming.engines[a]>>},
               !.callers[t].pc = "idle"]
    /\ UNCHANGED <<workers, regVars, gwVars, cacheVars, pipeVars, syncVars, chanVars, replyVars, teardownVars, mirrorVars, requestVars>>

StreamingNext ==
    \/ \E t \in Threads, a \in Avatars : GetStreamingEngine(t, a)
    \/ \E t \in Threads : SetupAndStart(t)
    \/ \E t \in Threads : StoreEngine(t)
    \/ \E t \in Threads : ReturnEngine(t)

StreamingSpec == Init /\ [][StreamingNext]_vars

---------------------------------------------------------------------------
(* A/V sync: webrtc_streamer.py (the latch and the two tracks) and         *)
(* musetalk/base_real.py, process_frames_worker, the only caller of        *)
(* trigger_av_sync.  One media session is followed; other sessions are     *)
(* seen through what they do to the module-level latch.                    *)

\* trigger_av_sync: the latch after a call made at time t
trigger_av_sync(triggered, start_time, t) ==
    IF triggered
    THEN [sync_triggered |-> TRUE, shared_start_time |-> start_time]
    ELSE [sync_triggered |-> TRUE, shared_start_time |-> t]

\* create_peer_connection for the followed session: the latch is reset, the
\* tracks are created
CreatePeerConnection ==
    /\ ~media.alive
    /\ shared_start_time' = None
    /\ sync_triggered' = FALSE
    /\ media' = [NoMedia EXCEPT !.alive = TRUE,
                                !.frame_list_cycle = media.frame_list_cycle]
    /\ UNCHANGED <<wall, regVars, gwVars, cacheVars, pipeVars, chanVars, replyVars, teardownVars, mirrorVars, engineVars, requestVars>>

\* create_peer_connection for another session (another user's offer)
OtherOffer ==
    /\ shared_start_time' = None
    /\ sync_triggered' = FALSE
    /\ UNCHANGED <<media, wall, regVars, gwVars, cacheVars, pipeVars, chanVars, replyVars, teardownVars, mirrorVars, engineVars, requestVars>>

\* the frame worker of another session reaches its prebuffer
OtherLatch ==
    /\ LET r == trigger_av_sync(sync_triggered, shared_start_time, wall)
       IN  /\ sync_triggered' = r.sync_triggered
           /\ shared_start_time' = r.shared_start_time
    /\ UNCHANGED <<media, wall, regVars, gwVars, cacheVars, pipeVars, chanVars, replyVars, teardownVars, mirrorVars, engineVars, requestVars>>

\* process_frames_worker, one turn of its loop: a tuple leaves
\* res_frame_queue, the prebuffer is counted and the latch triggered, and the
\* frame and its two audio frames are put on the tracks' queues, unless
\* paste_back_frame raises. On the silence path (and where res_frame is None)
\* combine_frame is the cached frame itself, not a copy, and row 0 of it is
\* marked in place; paste_back_frame works on a deep copy
WorkerStep ==
    /\ media.alive
    /\ media.frame_count < MaxFrames
    /\ LET fire == ~media.sync_triggered /\ media.frame_count + 1 >= PREBUFFER_FRAMES
           r == IF fire THEN trigger_av_sync(sync_triggered, shared_start_time, wall)
                ELSE [sync_triggered |-> sync_triggered,
                      shared_start_time |-> shared_start_time]
       IN  /\ sync_triggered' = r.sync_triggered
           /\ shared_start_time' = r.shared_start_time
           /\ \E silence \in BOOLEAN, paste_ok \in BOOLEAN :
                 LET idx == mirror_index(cycle_length, media.frame_count)
                     put == silence \/ paste_ok
                 IN  media' = [media EXCEPT
                         !.frame_count = @ + 1,
                         !.sync_triggered = @ \/ fire,
                         !.T0 = IF fire THEN r.shared_start_time ELSE @,
                         !.vq = IF put THEN @ + 1 ELSE @,
                         !.aq = IF put THEN @ + 2 ELSE @,
                         !.frame_list_cycle[idx] =
                             IF silence THEN clear_low_bit(@) ELSE @]
    /\ UNCHANGED <<wall, regVars, gwVars, cacheVars, pipeVars, chanVars, replyVars, teardownVars, mirrorVars, engineVars, requestVars>>

\* next_timestamp of a track with frame period ptime: once the track has its
\* start, the call sleeps until start + (n + 1) * ptime
deadline_passed(track, started, ptime, t) ==
    (started /\ track.start # None) => t >= track.start + (track.n + 1) * ptime

\* recv of a track, q frames in its queue: get_nowait decides real or idle,
\* the first real frame starts the track, and the first timestamp of a
\* started track takes the latch's time, or the clock where the latch is empty
recv(track, q, start_time, t) ==
    LET real == q > 0
        started == track.data_started \/ real
        out == IF real THEN "real" ELSE "idle"
    IN  IF ~started
        THEN [track EXCEPT !.last = out]
        ELSE IF track.start # None
        THEN [track EXCEPT !.data_started = TRUE, !.n = @ + 1, !.last = out]
        ELSE [track EXCEPT !.data_started = TRUE, !.last = out,
                           !.start = IF start_time # None THEN start_time ELSE t]

\* AvatarVideoTrack.recv
VideoRecv ==
    /\ media.alive
    /\ deadline_passed(media.video, media.video.data_started \/ media.vq > 0,
                       VIDEO_PTIME, wall)
    /\ media' = [media EXCEPT
           !.video = recv(media.video, media.vq, shared_start_time, wall),
           !.vq = IF @ > 0 THEN @ - 1 ELSE @]
    /\ UNCHANGED <<shared_start_time, sync_triggered, wall,
                   regVars, gwVars, cacheVars, pipeVars, chanVars, replyVars, teardownVars, mirrorVars, engineVars, requestVars>>

\* AvatarAudioTrack.recv
AudioRecv ==
    /\ media.alive
    /\ deadline_passed(media.audio, media.audio.data_started \/ media.aq > 0,
                       AUDIO_PTIME, wall)
    /\ media' = [media EXCEPT
           !.audio = recv(media.audio, media.aq, shared_start_time, wall),
           !.aq = IF @ > 0 THEN @ - 1 ELSE @]
    /\ UNCHANGED <<shared_start_time, sync_triggered, wall,
                   regVars, gwVars, cacheVars, pipeVars, chanVars, replyVars, teardownVars, mirrorVars, engineVars, requestVars>>

\* time.time() advances
WallTick ==
    /\ wall < MaxTicks * AUDIO_PTIME
    /\ wall' = wall + AUDIO_PTIME
    /\ UNCHANGED <<shared_start_time, sync_triggered, media,
                   regVars, gwVars, cacheVars, pipeVars, chanVars, replyVars, teardownVars, mirrorVars, engineVars, requestVars>>

SyncNext ==
    \/ CreatePeerConnection
    \/ OtherOffer
    \/ OtherLatch
    \/ WorkerStep
    \/ VideoRecv
    \/ AudioRecv
    \/ WallTick

SyncSpec == Init /\ [][SyncNext]_vars

---------------------------------------------------------------------------
(* Claims about the session registry *)

\* The session a token was issued for, from the history of creations
IssuedTokens == {created[s].engine_token : s \in DOMAIN created}
Live(reg) == {s \in DOMAIN reg.sessions : reg.sessions[s].status # "closed"}
NonExpired(reg, t) ==
    {s \in DOMAIN reg.sessions : t - reg.sessions[s].last_activity <= session_timeout}

\* C1: for every token ever issued by create, verify(token) is the session it
\* was issued for or nothing, and no two live sessions share a token.
C1_TokenVerifiesToOrigin ==
    /\ \A s \in DOMAIN created :
          verify_token(Reg, created[s].engine_token) \in {s, None}
    /\ \A a, b \in DOMAIN sessions :
          a # b => sessions[a].engine_token # sessions[b].engine_token

\* Three tokens were issued: one verifies to its live session, one to nothing
C1_Witness ==
    /\ Cardinality(IssuedTokens) = MaxIds
    /\ \E s \in DOMAIN sessions : verify_token(Reg, created[s].engine_token) = s
    /\ \E s \in (DOMAIN created) \ (DOMAIN sessions) :
          verify_token(Reg, created[s].engine_token) = None

\* C2: the number of sessions whose status is not closed never exceeds
\* max_sessions.
C2_LiveWithinCap == Cardinality(Live(Reg)) <= max_sessions

\* The registry is full and a create has just been refused
C2_Witness ==
    /\ Cardinality(Live(Reg)) = max_sessions
    /\ last.op = "create" /\ last.code = 503

\* C3: a create answers 503 exactly when the sessions that are not expired at
\* the call already fill the cap, and 201 otherwise; a create that directly
\* follows a successful delete answers 201.
C3_RejectedIffFull ==
    [][ last'.op = "create" =>
          /\ last'.code \in {201, 503}
          /\ (last'.code = 503) <=>
                (Cardinality(NonExpired(Reg, now)) >= max_sessions)
          /\ (last.op = "delete" /\ last.code = 204) => last'.code = 201
      ]_vars

\* A create was admitted although the registry still held max_sessions
\* sessions, one of them expired
C3_Witness ==
    /\ last.op = "create" /\ last.code = 201
    /\ Cardinality(DOMAIN sessions) = max_sessions
    /\ \E s \in (DOMAIN created) \ (DOMAIN sessions) :
          /\ now - created[s].created_at > session_timeout
          /\ \A o \in DOMAIN created : created[o].created_at >= created[s].created_at

\* C7: whatever the order in which the handlers run, the primary index and
\* the token index describe the same sessions, and of two creates run back
\* to back with one slot free only the first is admitted.
IndicesAgree ==
    /\ DOMAIN tokens = {sessions[s].engine_token : s \in DOMAIN sessions}
    /\ \A s \in DOMAIN sessions : tokens[sessions[s].engine_token] = s
    /\ Cardinality(DOMAIN tokens) = Cardinality(DOMAIN sessions)

C8_EventuallyEvicted ==
    \A s \in SessionIds :
        (s \in DOMAIN sessions /\ now - sessions[s].last_activity > session_timeout)
            ~> (s \notin DOMAIN sessions)

\* C8 amended: a sweep leaves no session idle for longer than the timeout,
\* and a sweep is part of every create and of every list or health request.
C8_SweptByCreateAndList ==
    last.op \in {"create", "list"} =>
        \A s \in DOMAIN sessions :
            ~ (now - sessions[s].last_activity > session_timeout)

\* A list request has run when a session had outlived the timeout
C8_Witness ==
    /\ last.op = "list"
    /\ \E s \in (DOMAIN created) \ (DOMAIN sessions) :
          now - created[s].created_at > session_timeout
    /\ DOMAIN sessions # {}

\* C9: delete of a live session answers 204 and removes it from both
\* indices, leaving every other entry as it was; delete of an id the
\* registry does not hold answers 404 and changes neither index.
C9_DeleteFrame ==
    [][ last'.op = "delete" =>
          LET sid   == last'.arg
              after == Registry(sessions', tokens')
          IN  IF sid \in DOMAIN sessions
              THEN /\ last'.code = 204
                   /\ get_session(after, sid) = None
                   /\ verify_token(after, sessions[sid].engine_token) = None
                   /\ sessions' = MapPop(sessions, sid)
                   /\ tokens' = MapPop(tokens, sessions[sid].engine_token)
              ELSE /\ last'.code = 404
                   /\ sessions' = sessions
                   /\ tokens' = tokens
      ]_vars

\* A live session was deleted while another one stayed
C9_Witness ==
    /\ last.op = "delete" /\ last.code = 204
    /\ DOMAIN sessions # {}
    /\ last.arg \notin DOMAIN sessions


---------------------------------------------------------------------------
(* Claims about the connection gateway *)

InLiveMap(c) == \E k \in DOMAIN active_connections : active_connections[k] = c

Refused(conn) ==
    /\ conn.state = "closed"
    /\ conn.code = WS_1008_POLICY_VIOLATION
    /\ conn.welcome = "none"
    /\ ~conn.served

C6_DefaultContextOwnedByUser ==
    \A c \in Conns :
        (conns[c].user_based /\ conns[c].session # None)
            => created[conns[c].session].student_id = conns[c].key

---------------------------------------------------------------------------
(* Claims about the engine cache *)

\* C4: every caller of get_ai_engine(k), concurrent or sequential, receives
\* the same engine for the same k, and no more than one AIEngine is ever
\* constructed for one tutor_id.
C4_OneEnginePerTutor ==
    /\ \A p, q \in handed : p[1] = q[1] => p[2] = q[2]
    /\ \A k \in TutorIds : instances[k] <= 1
    /\ \A k \in DOMAIN tutor_engines : tutor_engines[k] = AIEngine(k, 1)
    /\ \A p \in handed : tutor_engines[p[1]] = p[2]

\* Two threads missed the entry outside the lock, both went through the
\* lock, and both returned the same engine; one of them asked again later
C4_Witness ==
    \E t1, t2 \in Threads :
        /\ t1 # t2
        /\ callers[t1].pc = "idle" /\ callers[t2].pc = "idle"
        /\ callers[t1].slow /\ callers[t2].calls = MaxCalls
        /\ \E k \in TutorIds :
              /\ instances[k] = 1
              /\ Cardinality({t \in Threads : <<k, callers[t].result>> \in handed
                                              /\ callers[t].tutor_id = k}) >= 2
              /\ \E t \in Threads : callers[t].tutor_id = k /\ ~callers[t].slow
                                    /\ callers[t].pc = "idle" /\ callers[t].calls = MaxCalls

---------------------------------------------------------------------------
(* Claims about the lip-sync pipeline *)

Iota(n) == [j \in 1 .. n |-> j - 1]

\* video_frame_queue.put calls made so far by the inference thread
Produced ==
    inference.index + (IF inference.pc \in {"audio1", "audio2"} THEN 1 ELSE 0)

Conserved ==
    /\ delivered \o coupler.video \o video_frame_queue = Iota(Produced)
    /\ Len(delivered) <= batch_size * asr.entered
    /\ coupler.pc = "done" => coupler.video = <<>>

C11_ChunksPrecedeFrame ==
    /\ \A i, j \in 1 .. Len(delivered) : i < j => delivered[i] < delivered[j]
    /\ coupler.video # <<>> => Len(coupler.audio_frames) = 2

\* C11 (amended): frames leave the coupler in strictly increasing index
\* order, each in a tuple with exactly two audio chunks; the coupler takes
\* the frame first and its two chunks after it.
C11_FrameThenTwoChunks ==
    /\ \A i, j \in 1 .. Len(delivered) : i < j => delivered[i] < delivered[j]
    /\ coupler.pc = "yield" => (Len(coupler.video) = 1 /\ Len(coupler.audio_frames) = 2)
    /\ coupler.pc = "audio" => (Len(coupler.video) = 1 /\ Len(coupler.audio_frames) < 2)
    /\ coupler.pc \in {"video", "done"} => coupler.video = <<>>

\* The second frame is about to be yielded with two chunks of speech
C11_Witness ==
    /\ coupler.pc = "yield"
    /\ delivered = <<0>> /\ coupler.video = <<1>>
    /\ \A j \in 1 .. 2 : coupler.audio_frames[j].ty = 0

\* What the feature queue and the frames put so far must account for
BatchesAccounted ==
    /\ Len(feat_queue) <= 2
    /\ \A j \in 1 .. Len(feat_queue) :
          feat_queue[j] = asr.entered - Len(feat_queue) + j
    /\ batch_size * (asr.entered - Len(feat_queue)) =
          inference.index + (IF inference.pc = "wait" THEN 0
                             ELSE batch_size - inference.i)
    /\ video_frame_queue = Iota(Produced)

\* C12: the feature queue never holds more than 2 batches; while it is full
\* the extractor stays at its put, holding the batch, until the inference
\* thread takes a batch, and then puts that same batch; no batch and no frame
\* is dropped.
C12_FeatQueueBackpressure ==
    /\ []BatchesAccounted
    /\ [][ /\ (asr.pc = "put" /\ Len(feat_queue) = 2)
                => (asr' = asr /\ feat_queue' \in {feat_queue, Tail(feat_queue)})
           /\ (asr.pc = "put" /\ asr'.pc # "put")
                => feat_queue' = Append(feat_queue, asr.steps + 1)
         ]_vars

\* The extractor is blocked at its put on a full feature queue, after
\* batches have already gone through the queue
C12_Witness ==
    /\ asr.pc = "put"
    /\ Len(feat_queue) = 2
    /\ asr.entered > 2
    /\ inference.pc # "wait"


---------------------------------------------------------------------------
(* Claims about the A/V sync latch and the two tracks (SyncSpec) *)

\* C13 (as stated): the followed media session's start time T0, once latched
\* by its frame worker at the prebuffer, stays the value of the shared start
\* time for as long as the session lives, whatever other media sessions do.
C13_LatchKeptWhileSessionLives ==
    (media.alive /\ media.sync_triggered) =>
        /\ media.T0 # None
        /\ shared_start_time = media.T0

\* C14 (as stated): until the latch has fired, no recv has returned a real
\* frame and neither track has started its pacing clock.
C14_IdleUntilLatch ==
    (media.alive /\ ~media.sync_triggered /\ ~sync_triggered) =>
        /\ media.video.last # "real"
        /\ media.audio.last # "real"
        /\ ~media.video.data_started /\ media.video.start = None
        /\ ~media.audio.data_started /\ media.audio.start = None

\* C15 (as stated): once the latch has fired with T0, a track that paces does
\* so from T0, so that its n-th deadline is T0 + n * ptime.
C15_BothTracksPaceFromT0 ==
    (media.alive /\ media.sync_triggered) =>
        /\ media.video.start # None => media.video.start = media.T0
        /\ media.audio.start # None => media.audio.start = media.T0

---------------------------------------------------------------------------
(* Claims about the message loop and the live-connections map (ChannelSpec) *)

\* The last message a channel received, with its reply
LastTurn(s) == channels[s].log[Len(channels[s].log)]

\* C16 (as stated): after a message that fails JSON decoding the client has an
\* error reply and the loop has not returned: the connection is still served.
C16_DecodeErrorKeepsLoop ==
    \A s \in Sockets :
        (channels[s].log # <<>> /\ LastTurn(s).message.json = "invalid") =>
            /\ LastTurn(s).reply = "Invalid message format"
            /\ channels[s].state # "returned"

\* C17 (as stated): after a message whose handling raised, the client has an
\* error reply and the loop has not returned, the transport's own failure
\* (a disconnect) apart.
C17_HandlerErrorKeepsLoop ==
    \A s \in Sockets :
        (/\ channels[s].log # <<>>
         /\ LastTurn(s).message.json # "invalid"
         /\ LastTurn(s).reply \in {"Internal server error", "Failed to process message"})
        => channels[s].state # "returned"

\* C18: a message without tutor_id on a sessionless user-scoped connection is
\* answered by the one error reply "tutor_id is required in sessionless mode",
\* is handed to no engine and leaves the loop running.
NoTutorId(message) == message.json = "object" /\ message.tutor_id = None

C18_Answered ==
    \A s \in Sockets : \A i \in 1 .. Len(channels[s].log) :
        NoTutorId(channels[s].log[i].message) =>
            /\ channels[s].log[i].reply = "tutor_id is required in sessionless mode"
            /\ channels[s].log[i].ai_engine = NoEngine

C18_MissingTutorIdAnswered ==
    /\ []C18_Answered
    /\ [][\A s \in Sockets :
             (/\ Len(channels'[s].log) > Len(channels[s].log)
              /\ NoTutorId(channels'[s].log[Len(channels'[s].log)].message))
             => /\ Len(channels'[s].log) = Len(channels[s].log) + 1
                /\ channels'[s].state = "serving"
                /\ channels'[s].ai_engine = channels[s].ai_engine
                /\ tutor_engines' = tutor_engines
                /\ active_connections' = active_connections]_vars

\* C18's case: a message without tutor_id was refused and the next message on
\* the same connection was served
C18_Witness ==
    \E s \in Sockets :
        /\ channels[s].state = "serving"
        /\ Len(channels[s].log) = 2
        /\ NoTutorId(channels[s].log[1].message)
        /\ channels[s].log[1].reply = "tutor_id is required in sessionless mode"
        /\ channels[s].log[2].reply = "text"

\* C19 (as stated): every message served in sessionless mode was handed to the
\* engine of the tutor_id it carried.
C19_EngineOfMessageTutor ==
    \A s \in Sockets : \A i \in 1 .. Len(channels[s].log) :
        channels[s].log[i].ai_engine # NoEngine =>
            /\ channels[s].log[i].message.tutor_id \in DOMAIN tutor_engines
            /\ channels[s].log[i].ai_engine =
                   tutor_engines[channels[s].log[i].message.tutor_id]

\* C20 (as stated): one connection_id has at most one channel being served,
\* and while the second channel is served the live-connections map holds it.
Serving == {s \in Sockets : channels[s].state = "serving"}

C20_OneLiveChannelPerId ==
    /\ Cardinality(Serving) <= 1
    /\ 2 \in Serving =>
          /\ ChanId \in DOMAIN active_connections
          /\ active_connections[ChanId] = 2

---------------------------------------------------------------------------
(* Claims about the replies of one connection (ReplySpec) *)

\* C21: replies leave in the order of the messages they answer; the only
\* reply found behind a reply to a later message is the video of the
\* background generation a text message spawned.
C21_RepliesInMessageOrder ==
    \A i \in 1 .. Len(sent) : \A j \in 1 .. Len(sent) :
        (i < j /\ sent[j].of # 0 /\ sent[i].of > sent[j].of) =>
            /\ sent[j].type = "video"
            /\ handlers[sent[j].of].message.type = "text"

\* C21's case: a reply to the second message was sent, and the first
\* message's background video after it
C21_Witness ==
    \E i \in 1 .. Len(sent) : \E j \in 1 .. Len(sent) :
        /\ i < j
        /\ sent[i].of = 2 /\ sent[i].type = "text"
        /\ sent[j].of = 1 /\ sent[j].type = "video"

\* C22: every candidate sent to the client, in the answer's SDP or in a
\* webrtc_ice_candidate message, is a relay candidate.
C22_OnlyRelayCandidates ==
    \A i \in 1 .. Len(sent) : \A k \in 1 .. Len(sent[i].sdp) :
        sent[i].sdp[k] = "relay"

\* C22's case: the local description held a host and a relay candidate, and
\* the answer and a candidate message were sent
C22_Witness ==
    /\ \E k \in 1 .. Len(peer.sdp) : peer.sdp[k] = "host"
    /\ \E i \in 1 .. Len(sent) :
          sent[i].type = "webrtc_answer" /\ sent[i].sdp = <<"relay">>
    /\ \E i \in 1 .. Len(sent) : sent[i].type = "webrtc_ice_candidate"

\* C23 (as stated): a candidate message is sent only after the answer of the
\* offer it belongs to.
C23_AnswerBeforeCandidates ==
    \A i \in 1 .. Len(sent) :
        sent[i].type = "webrtc_ice_candidate" =>
            \E j \in 1 .. i - 1 :
                sent[j].type = "webrtc_answer" /\ sent[j].of = sent[i].of

\* C26 (as stated): an init message that carries an avatar_id, the engine
\* holding the idle clip, is answered by exactly one reply, a video, in every
\* mode of connection.
RepliesTo(n) == LET Answers(r) == r.of = n IN SelectSeq(sent, Answers)

C26_InitAnsweredByOneVideo ==
    \A n \in 1 .. Len(handlers) :
        (/\ handlers[n].message.type = "init"
         /\ handlers[n].message.avatar_id
         /\ handlers[n].outcome = "ok"
         /\ handlers[n].todo = <<>>)
        => RepliesTo(n) = <<Out(n, "video", <<>>)>>

(***************************************************************************)
(* Claims about tearing a media session down, under TeardownSpec.          *)
(***************************************************************************)

\* C24: tearing the media session down is idempotent: its tracks, its peer
\* connection and its signalling-channel mapping are released once, a further
\* teardown of the same session does nothing (no call ends in an exception),
\* and no teardown removes the entries of a media session that has not gone
\* down.
C24_TeardownIdempotent ==
    /\ \A c \in Closers : closers[c].at # "KeyError"
    /\ streamer.lost = {}

(***************************************************************************)
(* Claims about mirror_index, under MirrorSpec.                            *)
(***************************************************************************)

\* The logical indices of turn k of a cycle of `size` frames
Window(size, k) == (k * size) .. ((k + 1) * size - 1)

\* The turns whose windows lie within the indices followed
Turns(size) == 0 .. (MaxIndex \div size)

\* C25 (as the code has it): for every cycle length L >= 1 mirror_index returns
\* a position in [0, L) and maps every window [kL, (k+1)L) one-to-one onto
\* [0, L); applied a second time with the turn parity of the first call it
\* returns the index's offset in its window (index mod L), which is the index
\* itself only in turn 0; applied to its own result as it stands it returns
\* that result again.
C25_MirrorIndex ==
    /\ mirror.idx # Uncalled => mirror.idx \in 0 .. (mirror.size - 1)
    /\ \A k \in Turns(mirror.size) :
           /\ {mirror_index(mirror.size, i) : i \in Window(mirror.size, k)}
                  = 0 .. (mirror.size - 1)
           /\ \A i, j \in Window(mirror.size, k) :
                  mirror_index(mirror.size, i) = mirror_index(mirror.size, j) => i = j
    /\ mirror.again # Uncalled =>
           mirror.again = IF mirror.same_turn THEN mirror.index % mirror.size
                          ELSE mirror.idx

\* C25 is met in a backward turn: an index of an odd turn was mapped and the
\* function applied again with the same turn parity
C25_Witness ==
    /\ mirror.size > 1
    /\ (mirror.index \div mirror.size) % 2 = 1
    /\ mirror.idx = mirror.size - (mirror.index % mirror.size) - 1
    /\ mirror.same_turn
    /\ mirror.again = mirror.index % mirror.size

\* C25 (as stated): mirror_index is its own inverse: applying it twice with
\* the same turn parity returns the original index.
C25_OwnInverse ==
    (mirror.again # Uncalled /\ mirror.same_turn) => mirror.again = mirror.index

(***************************************************************************)
(* Claims about the requests of one lip-sync engine, under RequestSpec.    *)
(***************************************************************************)

\* C27: queues are drained at every request boundary so that nothing produced
\* for an earlier request is delivered to the consumer of a later request on
\* the same engine, output enqueued after the drain for input taken before it
\* included.  Stated for requests that began while no other request was
\* running: the frames such a request is given were driven by its own audio
\* or by silence, never by the audio of a request before it.
C27_NoResidueAcrossRequests ==
    \A r \in Requests :
        requests[r].alone => \A q \in requests[r].of : q >= r

\* C28: each engine is single-producer/single-consumer on every queue: at most
\* one request at a time feeds it and consumes its output, and no request
\* takes frames that belong to another.
C28_OneRequestAtATime ==
    /\ Cardinality({r \in Requests : requests[r].state = "running"}) <= 1
    /\ \A r \in Requests : requests[r].of \subseteq {r}

\* C29: a flush, the drain at a request boundary included, keeps every worker
\* thread alive whatever point the threads had reached: the extractor thread,
\* which feeds every queue the inference thread waits on, never ends.
C29_FlushKeepsThreadsAlive == lipsync.asr.pc # "dead"

\* C30: the logical frame index increases within a request and is reset
\* between requests: every request on the engine starts from the same
\* position of the avatar's cycle, however many frames were produced before.
\* The starting positions are compared for requests that began while no other
\* request was running.
C30_IndexResetBetweenRequests ==
    /\ \A r \in Requests : requests[r].latest >= requests[r].first
    /\ \A r, q \in Requests :
           (/\ requests[r].alone /\ requests[q].alone
            /\ requests[r].first # Uncalled /\ requests[q].first # Uncalled) =>
               mirror_index(cycle_length, requests[r].first)
                   = mirror_index(cycle_length, requests[q].first)

\* C31: an exception in the feature-extractor step or in neural inference for
\* one batch never stops a worker thread: the extractor skips the step and
\* goes on, and the inference worker emits the batch's original frames with
\* its audio and moves the index on.
C31_WorkersSurviveExceptions ==
    /\ lipsync.asr.pc # "raised"
    /\ lipsync.inference.pc # "raised"

\* C32: whenever TTS fails for one text (no audio, decoder failure or an
\* exception) the TTS worker emits a chunk of silence carrying an `end`
\* marker for that text, and keeps running.
C32_TtsFailureEmitsEnd ==
    /\ lipsync.tts.marker \in {"none", "end"}
    /\ lipsync.tts.marker # "none" => lipsync.tts.left = 0

(***************************************************************************)
(* Claims about the frame worker of MuseRealEngine, under SyncSpec.        *)
(***************************************************************************)

\* C33: if blending fails for one frame, the original avatar frame at that
\* cycle index is emitted in its place together with the frame's two audio
\* chunks: every tuple the frame worker takes puts one frame on the video
\* track and two chunks on the audio track.
C33_BlendFailureKeepsFrame ==
    [][media'.frame_count = media.frame_count + 1 =>
           /\ media'.vq = media.vq + 1
           /\ media'.aq = media.aq + 2]_vars

\* C36: the cached cycle of frames is never modified after load: whatever
\* frames the frame worker has produced, every cached frame is as it was loaded
C36_CyclesImmutable == media.frame_list_cycle = LoadedCycle


(***************************************************************************)
(* Claims about stop() of the streaming engine, under StopSpec.           *)
(***************************************************************************)

\* C34: when stop() has returned, every worker thread of the engine (TTS,
\* feature extraction, inference) has terminated and has been joined
C34_StopJoinsWorkers ==
    workers.stop = "returned" =>
        /\ workers.tts = "stopped"
        /\ workers.asr = "stopped"
        /\ workers.inference = "stopped"
        /\ workers.joined = {"tts", "asr", "inference"}


(***************************************************************************)
(* Claims about get_streaming_engine, under StreamingSpec.                *)
(***************************************************************************)

\* C40: at most one streaming engine is ever created and started for an
\* avatar_id, and every caller of get_streaming_engine for that avatar gets
\* the same engine
C40_OneStreamingEnginePerAvatar ==
    \A a \in Avatars :
        /\ streaming.started[a] <= 1
        /\ Cardinality({g \in streaming.got : g[1] = a}) <= 1


(***************************************************************************)
(* Claims about lookups of the registry between sweeps, under Spec.       *)
(***************************************************************************)

\* C38: verify_token and get_session never return a session whose idle time
\* exceeds the timeout, whether or not a sweep has run since it expired
C38_LookupsSkipExpired ==
    /\ \A tok \in Tokens :
          LET sid == verify_token(Reg, tok)
          IN  (sid # None /\ sid \in DOMAIN sessions) =>
                  now - sessions[sid].last_activity <= session_timeout
    /\ \A sid \in SessionIds :
          get_session(Reg, sid) # None =>
              now - sessions[sid].last_activity <= session_timeout


(***************************************************************************)
(* Claims about get_ai_engine against remove_ai_engine, under EvictSpec.  *)
(***************************************************************************)

\* C39: get_ai_engine running concurrently with remove_ai_engine for the same
\* tutor_id never fails: every call returns an engine
C39_AcquireNeverFails == \A t \in Threads : ~callers[t].raised


(***************************************************************************)
(* Claims about the cached session contexts, under GatewaySpec.           *)
(***************************************************************************)

\* C37: the cached context of a session is cleaned up when the session is
\* deleted: no message naming a session that is gone from the registry is
\* served from the cached context
C37_ContextGoneWithSession == \A c \in Conns : ~conns[c].stale


(***************************************************************************)
(* Claims about the end of a request, under EndlessSpec.                  *)
(***************************************************************************)

\* C35: the output of every lip-sync request is finite: a call of
\* process_text that has begun comes to its end, whether TTS succeeds or fails
\* for its text and whatever the threads and the other requests do meanwhile
C35_RequestsTerminate ==
    \A r \in Requests :
        (requests[r].state = "running") ~> (requests[r].state = "done")

====================================================================
